---- MODULE Spec2Model ----
(***************************************************************************)
(* Service layer of the piece-job marketplace: the CRUD wrappers over the  *)
(* hosted document store (disputes, payments, messages, applications,     *)
(* reviews, profiles), their fan-out queries, status updates, statistics   *)
(* and the review -> profile rating side effect.                           *)
(*                                                                         *)
(* Every service method is one action: the whole handler, from its first   *)
(* store call to the envelope it returns.  The store calls it makes may    *)
(* each succeed or fail; the outcome of each is an input of the action.    *)
(***************************************************************************)
EXTENDS Integers, Sequences, FiniteSets, TLC

\* ------------------------------------------------------------------ bounds
\* documents held by the store, all collections together
MaxDocs == 3
\* clock readings (new Date()) are 1..MaxTime, one unit = one hour
MaxTime == 2
\* largest page size a caller asks for
MaxLimit == 2
\* documents a collection holds where their status is followed
MaxTracked == 2

Users == {"U", "V"}
Admins == {"A"}
Ids == 1..MaxDocs
Limits == 1..MaxLimit
Offsets == 0..MaxDocs

\* a field the document does not carry (undefined in the source)
NoTime == 0
NoUser == "-"
NoFilter == "-"
NoDoc == [id |-> 0]

\* outcome of one call to the store: it answers, it throws an error that
\* carries a message, or it throws one whose message is empty
StoreOutcomes == {"ok", "error", "error_nomsg"}

VARIABLES
  now,           \* last reading of the clock
  disputes,      \* collection DISPUTES, in insertion order
  payments,      \* collection PAYMENTS, in insertion order
  messages,      \* collection MESSAGES, in insertion order
  applications,  \* collection APPLICATIONS, in insertion order
  reviews,       \* collection REVIEWS, in insertion order
  profiles,      \* collection PROFILES: user -> rating fields
  jobs,          \* collection JOBS, in insertion order
  request,       \* the service call made last, with its arguments
  response,      \* the envelope that call returned
  calls,         \* the store calls that call issued, in order
  pages,         \* pages a caller collected by paging through one query
  promises,      \* the queries of a Promise.all that is awaited, and their responses
  realtime,      \* RealtimeService.subscriptions and the subscriptions of the client
  jobsCompleted, \* collection PROFILES: profile -> jobsCompleted
  tasks,         \* the service calls that run at the same time, each with its locals
  auth,          \* authStore.state
  notifications  \* collection NOTIFICATIONS, in insertion order

vars == <<now, disputes, payments, messages, applications, reviews, profiles,
          jobs, request, response, calls, pages, promises, realtime,
          jobsCompleted, tasks, auth, notifications>>

stores == <<disputes, payments, messages, applications, reviews, profiles, jobs>>

\* the state outside the collections above and the call in progress
elsewhere == <<realtime, jobsCompleted, tasks, auth, notifications>>

\* ------------------------------------------------------- sequence helpers
Min(a, b) == IF a < b THEN a ELSE b

\* Array.prototype.slice(from, to)
Slice(s, from, to) == SubSeq(s, from + 1, Min(to, Len(s)))

\* position a stable descending sort gives element i of a sequence with keys k
RankDesc(k, i) ==
  1 + Cardinality({j \in 1..Len(k) : k[j] > k[i] \/ (k[j] = k[i] /\ j < i)})

\* Array.prototype.sort((a, b) => key(b) - key(a)): descending, and stable, so
\* that elements with equal keys keep the order they had
SortDesc(s, key) ==
  LET k == [i \in 1..Len(s) |-> s[i][key]]
  IN  [r \in 1..Len(s) |-> s[CHOOSE i \in 1..Len(s) : RankDesc(k, i) = r]]

\* Array.prototype.findIndex(d => d.$id === id), 1-based
FindIndex(s, id) ==
  CHOOSE i \in 1..Len(s) : s[i].id = id /\ \A j \in 1..(i - 1) : s[j].id # id

\* the elements of s at the positions in I, in their order in s
AtPositions(s, I) ==
  [r \in 1..Cardinality(I) |->
     s[CHOOSE i \in I : Cardinality({j \in I : j < i}) = r - 1]]

\* the same reduce with dist[d[field]] = 1 for its step: a value is marked as
\* seen, its documents are not counted
RECURSIVE CountBy_Seen(_, _, _)
CountBy_Seen(docs, field, n) ==
  IF n = 0 THEN <<>>
  ELSE LET dist == CountBy_Seen(docs, field, n - 1)
           value == docs[n][field]
       IN  [v \in DOMAIN dist \cup {value} |-> IF v = value THEN 1 ELSE dist[v]]

\* docs.reduce((dist, d) => { dist[d[field]] = (dist[d[field]] || 0) + 1;
\* return dist }, {}) over the first n documents: the function value -> count
RECURSIVE CountBy(_, _, _)
CountBy(docs, field, n) ==
  IF n = 0 THEN <<>>
  ELSE LET dist == CountBy(docs, field, n - 1)
           value == docs[n][field]
       IN  [v \in DOMAIN dist \cup {value} |->
              IF v = value
                THEN (IF value \in DOMAIN dist THEN dist[value] ELSE 0) + 1
                ELSE dist[v]]

\* the merged list kept as it is, without the filter on the first index
UniqueById_Keep(s) == s

\* self.filter((d, index, self) => index === self.findIndex(x => x.$id === d.$id))
UniqueById(s) ==
  AtPositions(s, {i \in 1..Len(s) : FindIndex(s, s[i].id) = i})

IdsOf(s) == {s[i].id : i \in 1..Len(s)}

Max(a, b) == IF a > b THEN a ELSE b

MaxId(coll) == IF coll = <<>> THEN 0
               ELSE CHOOSE m \in IdsOf(coll) : \A i \in IdsOf(coll) : i <= m

\* ID.unique(): an id no document of the collection carries.  The ids it
\* makes start with the time of the call, so they grow with creation order.
FreshIds(coll) == {MaxId(coll) + 1}

TotalDocs == Len(disputes) + Len(payments) + Len(messages)
             + Len(applications) + Len(reviews)

\* ------------------------------------------------------------- the store
\* the document satisfies every Query.equal(field, value) of the query;
\* equalities is the function field -> value
Matches(doc, equalities) ==
  \A f \in DOMAIN equalities : doc[f] = equalities[f]

\* databases.listDocuments(..., [Query.orderDesc(key), Query.limit(limit),
\* Query.offset(offset), ...equalities]): the matching documents in descending
\* key order (equal keys in insertion order), cut to the window, with the
\* number of all matching documents as total
listDocuments(coll, equalities, key, limit, offset) ==
  LET matching == SelectSeq(coll, LAMBDA d : Matches(d, equalities))
  IN  [documents |-> Slice(SortDesc(matching, key), offset, offset + limit),
       total     |-> Len(matching)]

\* the document with the fields of the patch overwritten
Patched(doc, fields) ==
  [f \in DOMAIN doc |-> IF f \in DOMAIN fields THEN fields[f] ELSE doc[f]]

\* databases.updateDocument(..., id, fields): the collection afterwards
updateDocument(coll, id, fields) ==
  [i \in 1..Len(coll) |-> IF coll[i].id = id THEN Patched(coll[i], fields)
                                              ELSE coll[i]]

\* databases.getDocument(..., id); the caller checks that it exists
getDocument(coll, id) == coll[CHOOSE i \in 1..Len(coll) : coll[i].id = id]

\* databases.deleteDocument(..., id): the collection afterwards
deleteDocument(coll, id) == SelectSeq(coll, LAMBDA d : d.id # id)

\* what the store answers to a call on document id: a call on a document
\* that does not exist throws, whatever else happens
OutcomeOn(coll, id, o) ==
  IF o = "ok" /\ id \notin IdsOf(coll) THEN "error" ELSE o

\* the ids a caller passes: those of the stored documents and one of none
TargetIds(coll) == IdsOf(coll) \cup {MaxId(coll) + 1}

\* a store call an operation issued, or a line it logged, with what came of it
Call(name, outcome) == [call |-> name, outcome |-> outcome]

\* error.message alone, with no fallback text behind it
ErrorOf_NoFallback(outcome, fallback) ==
  IF outcome = "error" THEN "store error" ELSE ""

\* error.message || fallback
ErrorOf(outcome, fallback) ==
  IF outcome = "error" THEN "store error" ELSE fallback

Failure(outcome, fallback) ==
  [success |-> FALSE, error |-> ErrorOf(outcome, fallback),
   documents |-> <<>>, total |-> 0, data |-> NoDoc]

Page(documents, total) ==
  [success |-> TRUE, error |-> "", documents |-> documents, total |-> total,
   data |-> NoDoc]

Single(doc) ==
  [success |-> TRUE, error |-> "", documents |-> <<>>, total |-> 0, data |-> doc]

\* the two queries awaited with Promise.allSettled and their results used
\* whatever came of them: no rejection reaches the catch
AllOutcomes_Settled(o1, o2) == {"ok"}

\* await Promise.all([q1, q2]) inside try/catch: "ok" when both answer,
\* otherwise the outcome of a query that failed (the one that rejects first)
AllOutcomes(o1, o2) ==
  IF o1 = "ok" /\ o2 = "ok" THEN {"ok"} ELSE {o1, o2} \ {"ok"}

\* the fields the queries order by
CreatedAt == "created_at"
SentAt == "sent_at"

\* ------------------------------------------------- requests and paging
Request(op, id, userId, arg, limit, offset) ==
  [op |-> op, id |-> id, userId |-> userId, arg |-> arg,
   limit |-> limit, offset |-> offset]

NoRequest == Request("none", 0, NoUser, NoFilter, 0, 0)
NoResponse == Page(<<>>, 0)
NoPages == [started |-> FALSE, docs |-> <<>>]

\* RealtimeService before any subscribe call: subscriptions is an empty Map
\* and the client holds no subscription
NoSubscriptions == [subscriptions |-> <<>>, client |-> <<>>]

\* the service calls that can run at the same time
Tasks == 1..MaxTracked

\* a call that has not been made
NoTask == [op |-> "none", pc |-> "idle"]
NoTasks == [t \in Tasks |-> NoTask]

\* no Promise.all is awaited
NoPromises == [awaiting |-> FALSE, pending |-> {}, arrived |-> <<>>]

\* The caller is sequential: it makes a call when it holds no envelope, or it
\* asks for the next page of the query whose page it holds (same arguments,
\* offset advanced by limit, the store untouched in between).
IsNextPage(req) ==
  /\ response.success
  /\ request = [req EXCEPT !.offset = req.offset - req.limit]

Idle == request = NoRequest

\* the requests among reqs the caller can make now
Callable(reqs) ==
  IF Idle THEN reqs
  ELSE IF response.success
    THEN reqs \cap {[request EXCEPT !.offset = request.offset + request.limit]}
  ELSE {}

\* the pages collected so far by paging from offset 0 on, concatenated
NextPages(req, resp) ==
  IF ~resp.success THEN NoPages
  ELSE IF req.offset = 0 THEN [started |-> TRUE, docs |-> resp.documents]
  ELSE IF IsNextPage(req) /\ pages.started
    THEN [started |-> TRUE, docs |-> pages.docs \o resp.documents]
  ELSE NoPages

\* the caller has read the envelope and drops it
Return ==
  /\ request # NoRequest
  /\ ~promises.awaiting
  /\ request' = NoRequest
  /\ response' = NoResponse
  /\ calls' = <<>>
  /\ pages' = NoPages
  /\ promises' = NoPromises
  /\ UNCHANGED <<now, stores, elsewhere>>

\* ------------------------------------------------------- DisputeService
DisputeStatuses == {"open", "under_review", "resolved_in_favor_of_seeker",
                    "resolved_in_favor_of_provider", "cancelled"}

\* disputeData.disputeType and disputeData.priority || 'medium'
DisputeTypes == {"payment", "quality"}
Priorities == {"medium", "high"}

\* the document DisputeService.create writes (fields no operation of the
\* model reads, such as description and updated_at, are left out)
NewDispute(id, complainantId, respondentId, disputeType, priority, t) ==
  [id |-> id, complainant_id |-> complainantId, respondent_id |-> respondentId,
   dispute_type |-> disputeType, priority |-> priority,
   status |-> "open", created_at |-> t, assigned_admin_id |-> NoUser,
   review_started_at |-> NoTime, resolved_at |-> NoTime,
   evidence_urls |-> <<>>]

\* DisputeService.getAll(filters, limit, offset)
getAll(coll, userId, status, limit, offset, o1, o2, out) ==
  LET Filters == IF status = NoFilter THEN <<>> ELSE [status |-> status]
      IsComplainant == Filters @@ [complainant_id |-> userId]
      IsRespondent == Filters @@ [respondent_id |-> userId]
      complainantDisputes == listDocuments(coll, IsComplainant, CreatedAt, limit, offset)
      respondentDisputes == listDocuments(coll, IsRespondent, CreatedAt, limit, offset)
      allDisputes == complainantDisputes.documents \o respondentDisputes.documents
      uniqueDisputes == UniqueById(allDisputes)
      plain == listDocuments(coll, Filters, CreatedAt, limit, offset)
  IN  IF userId # NoUser
        THEN IF out # "ok" THEN Failure(out, "Failed to fetch disputes")
             ELSE Page(Slice(SortDesc(uniqueDisputes, CreatedAt), offset, offset + limit),
                       Len(uniqueDisputes))
        ELSE IF o1 # "ok" THEN Failure(o1, "Failed to fetch disputes")
             ELSE Page(plain.documents, plain.total)

\* DisputeService.getUserDisputes(userId, role, limit, offset)
getUserDisputes(coll, userId, role, limit, offset, o1, o2, out) ==
  LET IsComplainant == [complainant_id |-> userId]
      IsRespondent == [respondent_id |-> userId]
      complainantDisputes == listDocuments(coll, IsComplainant, CreatedAt, limit, offset)
      respondentDisputes == listDocuments(coll, IsRespondent, CreatedAt, limit, offset)
      allDisputes ==
        Slice(SortDesc(complainantDisputes.documents \o respondentDisputes.documents,
                       CreatedAt), offset, offset + limit)
  IN  IF role = "complainant"
        THEN IF o1 # "ok" THEN Failure(o1, "Failed to fetch user disputes")
             ELSE Page(complainantDisputes.documents, complainantDisputes.total)
      ELSE IF role = "respondent"
        THEN IF o1 # "ok" THEN Failure(o1, "Failed to fetch user disputes")
             ELSE Page(respondentDisputes.documents, respondentDisputes.total)
      ELSE IF out # "ok" THEN Failure(out, "Failed to fetch user disputes")
             ELSE Page(allDisputes, complainantDisputes.total + respondentDisputes.total)

\* await DisputeService.create(disputeData)
DisputeCreate ==
  /\ Idle
  /\ TotalDocs < MaxDocs
  /\ \E id \in FreshIds(disputes), c \in Users, r \in Users,
        disputeType \in DisputeTypes, priority \in Priorities,
        t \in now..MaxTime, o \in StoreOutcomes :
       /\ now' = t
       /\ request' = Request("DisputeService.create", id, c, r, 0, 0)
       /\ calls' = <<Call("createDocument", o)>>
       /\ IF o = "ok"
            THEN /\ disputes' = Append(disputes, NewDispute(id, c, r, disputeType, priority, t))
                 /\ response' = Single(NewDispute(id, c, r, disputeType, priority, t))
            ELSE /\ disputes' = disputes
                 /\ response' = Failure(o, "Failed to create dispute")
       /\ pages' = NoPages
       /\ UNCHANGED <<payments, messages, applications, reviews, profiles, jobs, promises, elsewhere>>

\* the store calls a query issues, with their outcomes o: one, or two at
\* once for a fan-out
QueryCalls(fanOut, o) ==
  IF fanOut THEN <<Call("listDocuments", o[1]), Call("listDocuments", o[2])>>
  ELSE <<Call("listDocuments", o[1])>>

\* the outcomes of the store calls of a query: of its one call, or of the two
\* calls of a fan-out together with the outcome of their Promise.all
QueryOutcomes(fanOut) ==
  IF fanOut
    THEN {<<o1, o2, out>> : o1 \in StoreOutcomes, o2 \in StoreOutcomes,
                            out \in StoreOutcomes} \cap
         {x \in StoreOutcomes \X StoreOutcomes \X StoreOutcomes :
            x[3] \in AllOutcomes(x[1], x[2])}
    ELSE {<<o, "ok", o>> : o \in StoreOutcomes}

GetAllRequests ==
  {Request("DisputeService.getAll", 0, u, NoFilter, l, off) :
     u \in Users \cup {NoUser}, l \in Limits, off \in Offsets}

\* await DisputeService.getAll({userId}, limit, offset)
DisputeGetAll ==
  \E req \in Callable(GetAllRequests) :
    \E o \in QueryOutcomes(req.userId # NoUser) :
      /\ request' = req
      /\ response' = getAll(disputes, req.userId, req.arg, req.limit, req.offset,
                            o[1], o[2], o[3])
      /\ calls' = QueryCalls(req.userId # NoUser, o)
      /\ pages' = NextPages(req, response')
      /\ UNCHANGED <<now, stores, promises, elsewhere>>

GetUserDisputesRequests ==
  {Request("DisputeService.getUserDisputes", 0, u, role, l, off) :
     u \in Users, role \in {"complainant", "respondent", "all"},
     l \in Limits, off \in Offsets}

\* await DisputeService.getUserDisputes(userId, role, limit, offset)
DisputeGetUserDisputes ==
  \E req \in Callable(GetUserDisputesRequests) :
    \E o \in QueryOutcomes(req.arg = "all") :
      /\ request' = req
      /\ response' = getUserDisputes(disputes, req.userId, req.arg, req.limit,
                                     req.offset, o[1], o[2], o[3])
      /\ calls' = QueryCalls(req.arg = "all", o)
      /\ pages' = NextPages(req, response')
      /\ UNCHANGED <<now, stores, promises, elsewhere>>

\* ------------------------------------------------------- PaymentService
PaymentStatuses == {"pending", "completed", "failed", "refunded"}

\* paymentData.amount, in whole units of the currency
Amounts == {1, 2}

\* the document PaymentService.create writes
NewPayment(id, payerId, recipientId, amount, t) ==
  [id |-> id, payer_id |-> payerId, recipient_id |-> recipientId,
   amount |-> amount, status |-> "pending", escrow_status |-> "held", created_at |-> t]

\* PaymentService.getUserPayments(userId, type, limit, offset)
getUserPayments(coll, userId, type, limit, offset, o1, o2, out) ==
  LET IsPayer == [payer_id |-> userId]
      IsRecipient == [recipient_id |-> userId]
      sentResponse == listDocuments(coll, IsPayer, CreatedAt, limit, offset)
      receivedResponse == listDocuments(coll, IsRecipient, CreatedAt, limit, offset)
      allPayments ==
        Slice(SortDesc(sentResponse.documents \o receivedResponse.documents,
                       CreatedAt), offset, offset + limit)
  IN  IF type = "all"
        THEN IF out # "ok" THEN Failure(out, "Failed to fetch user payments")
             ELSE Page(allPayments, sentResponse.total + receivedResponse.total)
      ELSE IF o1 # "ok" THEN Failure(o1, "Failed to fetch user payments")
      ELSE IF type = "sent" THEN Page(sentResponse.documents, sentResponse.total)
      ELSE Page(receivedResponse.documents, receivedResponse.total)

\* await PaymentService.create(paymentData)
PaymentCreate ==
  /\ Idle
  /\ TotalDocs < MaxDocs
  /\ \E id \in FreshIds(payments), payer \in Users, recipient \in Users,
        amount \in Amounts, t \in now..MaxTime, o \in StoreOutcomes :
       /\ now' = t
       /\ request' = Request("PaymentService.create", id, payer, recipient, 0, 0)
       /\ calls' = <<Call("createDocument", o)>>
       /\ IF o = "ok"
            THEN /\ payments' = Append(payments, NewPayment(id, payer, recipient, amount, t))
                 /\ response' = Single(NewPayment(id, payer, recipient, amount, t))
            ELSE /\ payments' = payments
                 /\ response' = Failure(o, "Failed to create payment")
       /\ pages' = NoPages
       /\ UNCHANGED <<disputes, messages, applications, reviews, profiles, jobs, promises, elsewhere>>

GetUserPaymentsRequests ==
  {Request("PaymentService.getUserPayments", 0, u, type, l, off) :
     u \in Users, type \in {"sent", "received", "all"},
     l \in Limits, off \in Offsets}

\* await PaymentService.getUserPayments(userId, type, limit, offset)
PaymentGetUserPayments ==
  \E req \in Callable(GetUserPaymentsRequests) :
    \E o \in QueryOutcomes(req.arg = "all") :
      /\ request' = req
      /\ response' = getUserPayments(payments, req.userId, req.arg, req.limit,
                                     req.offset, o[1], o[2], o[3])
      /\ calls' = QueryCalls(req.arg = "all", o)
      /\ pages' = NextPages(req, response')
      /\ UNCHANGED <<now, stores, promises, elsewhere>>

\* ------------------------------------------------------- MessageService
\* the document MessageService.send writes
NewMessage(id, senderId, recipientId, t) ==
  [id |-> id, sender_id |-> senderId, recipient_id |-> recipientId,
   is_read |-> FALSE, sent_at |-> t]

\* MessageService.getConversation(userId1, userId2, undefined, limit, offset)
getConversation(coll, userId1, userId2, limit, offset, o1, o2, out) ==
  LET IsSent == [sender_id |-> userId1, recipient_id |-> userId2]
      IsReceived == [sender_id |-> userId2, recipient_id |-> userId1]
      sentMessages == listDocuments(coll, IsSent, SentAt, limit, offset)
      receivedMessages == listDocuments(coll, IsReceived, SentAt, limit, offset)
      allMessages ==
        Slice(SortDesc(sentMessages.documents \o receivedMessages.documents,
                       SentAt), offset, offset + limit)
  IN  IF out # "ok" THEN Failure(out, "Failed to fetch conversation")
      ELSE Page(allMessages, sentMessages.total + receivedMessages.total)

\* await MessageService.send(messageData)
MessageSend ==
  /\ Idle
  /\ TotalDocs < MaxDocs
  /\ \E id \in FreshIds(messages), sender \in Users, recipient \in Users,
        t \in now..MaxTime, o \in StoreOutcomes :
       /\ now' = t
       /\ request' = Request("MessageService.send", id, sender, recipient, 0, 0)
       /\ calls' = <<Call("createDocument", o)>>
       /\ IF o = "ok"
            THEN /\ messages' = Append(messages, NewMessage(id, sender, recipient, t))
                 /\ response' = Single(NewMessage(id, sender, recipient, t))
            ELSE /\ messages' = messages
                 /\ response' = Failure(o, "Failed to send message")
       /\ pages' = NoPages
       /\ UNCHANGED <<disputes, payments, applications, reviews, profiles, jobs, promises, elsewhere>>

GetConversationRequests ==
  {Request("MessageService.getConversation", 0, u1, u2, l, off) :
     u1 \in Users, u2 \in Users, l \in Limits, off \in Offsets}

\* await MessageService.getConversation(userId1, userId2, undefined, limit, offset)
MessageGetConversation ==
  \E req \in Callable(GetConversationRequests) :
    \E o \in QueryOutcomes(TRUE) :
      /\ request' = req
      /\ response' = getConversation(messages, req.userId, req.arg, req.limit,
                                     req.offset, o[1], o[2], o[3])
      /\ calls' = QueryCalls(TRUE, o)
      /\ pages' = NextPages(req, response')
      /\ UNCHANGED <<now, stores, promises, elsewhere>>

\* --------------------------------------------------- ApplicationService
ApplicationStatuses == {"pending", "accepted", "rejected", "withdrawn"}

\* the document ApplicationService.create writes
NewApplication(id, applicantId, t) ==
  [id |-> id, applicant_id |-> applicantId, status |-> "pending",
   applied_at |-> t, accepted_at |-> NoTime, rejected_at |-> NoTime]

\* await ApplicationService.create(applicationData)
ApplicationCreate ==
  /\ Idle
  /\ TotalDocs < MaxDocs
  /\ \E id \in FreshIds(applications), u \in Users,
        t \in now..MaxTime, o \in StoreOutcomes :
       /\ now' = t
       /\ request' = Request("ApplicationService.create", id, u, NoFilter, 0, 0)
       /\ calls' = <<Call("createDocument", o)>>
       /\ IF o = "ok"
            THEN /\ applications' = Append(applications, NewApplication(id, u, t))
                 /\ response' = Single(NewApplication(id, u, t))
            ELSE /\ applications' = applications
                 /\ response' = Failure(o, "Failed to create application")
       /\ pages' = NoPages
       /\ UNCHANGED <<disputes, payments, messages, reviews, profiles, jobs, promises, elsewhere>>

\* updateData of ApplicationService.updateStatus(applicationId, status, userId)
ApplicationStatusUpdate(status, t) ==
  IF status = "accepted" THEN [status |-> status, accepted_at |-> t]
  ELSE IF status = "rejected" THEN [status |-> status, rejected_at |-> t]
  ELSE [status |-> status]

\* await ApplicationService.updateStatus(applicationId, status, userId)
ApplicationUpdateStatus ==
  /\ Idle
  /\ \E id \in TargetIds(applications), status \in ApplicationStatuses,
        u \in Users, t \in now..MaxTime, o \in StoreOutcomes :
       LET out == OutcomeOn(applications, id, o)
           after == updateDocument(applications, id, ApplicationStatusUpdate(status, t))
       IN  /\ now' = t
           /\ request' = Request("ApplicationService.updateStatus", id, u, status, 0, 0)
           /\ calls' = <<Call("updateDocument", out)>>
           /\ IF out = "ok"
                THEN /\ applications' = after
                     /\ response' = Single(getDocument(after, id))
                ELSE /\ applications' = applications
                     /\ response' = Failure(out, "Failed to update application status")
           /\ pages' = NoPages
           /\ UNCHANGED <<disputes, payments, messages, reviews, profiles, jobs, promises, elsewhere>>

\* ------------------------------------------- PaymentService: status, escrow
\* updateData of PaymentService.updateStatus(paymentId, status); the
\* completed_at, failed_at and refunded_at it also writes are never read
PaymentStatusUpdate(status) == [status |-> status]

\* the fields PaymentService.releaseEscrow(paymentId) writes
ReleaseEscrowUpdate == [escrow_status |-> "released", status |-> "completed"]

\* the fields PaymentService.refundEscrow(paymentId, reason) writes
RefundEscrowUpdate == [escrow_status |-> "refunded", status |-> "refunded"]

\* a PaymentService call that is one updateDocument on payment id
PaymentWrite(op, id, arg, fields, fallback) ==
  \E t \in now..MaxTime, o \in StoreOutcomes :
    LET out == OutcomeOn(payments, id, o)
        after == updateDocument(payments, id, fields)
    IN  /\ now' = t
        /\ request' = Request(op, id, NoUser, arg, 0, 0)
        /\ calls' = <<Call("updateDocument", out)>>
        /\ IF out = "ok"
             THEN /\ payments' = after
                  /\ response' = Single(getDocument(after, id))
             ELSE /\ payments' = payments
                  /\ response' = Failure(out, fallback)
        /\ pages' = NoPages
        /\ UNCHANGED <<disputes, messages, applications, reviews, profiles, jobs, promises, elsewhere>>

\* await PaymentService.updateStatus(paymentId, status)
PaymentUpdateStatus ==
  /\ Idle
  /\ \E id \in TargetIds(payments), status \in PaymentStatuses :
       PaymentWrite("PaymentService.updateStatus", id, status,
                    PaymentStatusUpdate(status), "Failed to update payment status")

\* await PaymentService.releaseEscrow(paymentId)
PaymentReleaseEscrow ==
  /\ Idle
  /\ \E id \in TargetIds(payments) :
       PaymentWrite("PaymentService.releaseEscrow", id, NoFilter,
                    ReleaseEscrowUpdate, "Failed to release escrow payment")

\* await PaymentService.refundEscrow(paymentId, reason)
PaymentRefundEscrow ==
  /\ Idle
  /\ \E id \in TargetIds(payments) :
       PaymentWrite("PaymentService.refundEscrow", id, NoFilter,
                    RefundEscrowUpdate, "Failed to refund escrow payment")

\* ------------------------------------- DisputeService: status, statistics
ResolvedStatuses == {"resolved_in_favor_of_seeker", "resolved_in_favor_of_provider"}

\* updateData of DisputeService.updateStatus(disputeId, status, adminId,
\* resolution); resolved says whether a resolution text was passed (the
\* resolution, closed_at and updated_at it also writes are never read)
DisputeStatusUpdate(status, adminId, resolved, t) ==
  IF status = "under_review" /\ adminId # NoUser
    THEN [status |-> status, assigned_admin_id |-> adminId, review_started_at |-> t]
  ELSE IF status \in ResolvedStatuses /\ resolved
    THEN [status |-> status, resolved_at |-> t]
  ELSE [status |-> status]

\* the fields DisputeService.assignToAdmin(disputeId, adminId) writes
AssignToAdminUpdate(adminId, t) ==
  [assigned_admin_id |-> adminId, status |-> "under_review", review_started_at |-> t]

\* a DisputeService call that is one updateDocument on dispute id
DisputeWrite(op, id, userId, arg, fields, t, fallback) ==
  \E o \in StoreOutcomes :
    LET out == OutcomeOn(disputes, id, o)
        after == updateDocument(disputes, id, fields)
    IN  /\ now' = t
        /\ request' = Request(op, id, userId, arg, 0, 0)
        /\ calls' = <<Call("updateDocument", out)>>
        /\ IF out = "ok"
             THEN /\ disputes' = after
                  /\ response' = Single(getDocument(after, id))
             ELSE /\ disputes' = disputes
                  /\ response' = Failure(out, fallback)
        /\ pages' = NoPages
        /\ UNCHANGED <<payments, messages, applications, reviews, profiles, jobs, promises, elsewhere>>

\* await DisputeService.updateStatus(disputeId, status, adminId, resolution)
DisputeUpdateStatus ==
  /\ Idle
  /\ \E id \in TargetIds(disputes), status \in DisputeStatuses,
        adminId \in Admins \cup {NoUser}, resolved \in BOOLEAN, t \in now..MaxTime :
       DisputeWrite("DisputeService.updateStatus", id, adminId, status,
                    DisputeStatusUpdate(status, adminId, resolved, t), t,
                    "Failed to update dispute status")

\* await DisputeService.assignToAdmin(disputeId, adminId)
DisputeAssignToAdmin ==
  /\ Idle
  /\ \E id \in TargetIds(disputes), adminId \in Admins, t \in now..MaxTime :
       DisputeWrite("DisputeService.assignToAdmin", id, adminId, NoFilter,
                    AssignToAdminUpdate(adminId, t), t,
                    "Failed to assign dispute to admin")

\* Math.round(100 * total / count): an average in hundredths, halves up
RoundedAverage100(total, count) == (200 * total + count) \div (2 * count)

\* the accumulator of the reduce of DisputeService.getStats after the first n
\* documents; its disputesByType and disputesByPriority are those of CountBy
RECURSIVE getStatsReduce(_, _)
getStatsReduce(docs, n) ==
  IF n = 0
    THEN [totalDisputes |-> 0, openDisputes |-> 0, inReviewDisputes |-> 0,
          resolvedDisputes |-> 0, closedDisputes |-> 0,
          totalResolutionTime |-> 0, resolvedCount |-> 0]
    ELSE LET acc == getStatsReduce(docs, n - 1)
             dispute == docs[n]
             timed == dispute.status = "resolved" /\ dispute.resolved_at # NoTime
         IN  [totalDisputes |-> acc.totalDisputes + 1,
              openDisputes |-> acc.openDisputes
                 + (IF dispute.status = "open" THEN 1 ELSE 0),
              inReviewDisputes |-> acc.inReviewDisputes
                 + (IF dispute.status = "under_review" THEN 1 ELSE 0),
              resolvedDisputes |-> acc.resolvedDisputes
                 + (IF dispute.status \in ResolvedStatuses THEN 1 ELSE 0),
              closedDisputes |-> acc.closedDisputes
                 + (IF dispute.status = "cancelled" THEN 1 ELSE 0),
              totalResolutionTime |-> acc.totalResolutionTime
                 + (IF timed THEN dispute.resolved_at - dispute.created_at ELSE 0),
              resolvedCount |-> acc.resolvedCount + (IF timed THEN 1 ELSE 0)]

\* DisputeService.getStats(): the data of its envelope, averageResolutionTime
\* in hundredths of an hour
getStats(coll) ==
  LET docs == listDocuments(coll, <<>>, CreatedAt, Len(coll), 0).documents
      stats == getStatsReduce(docs, Len(docs))
  IN  [id |-> 0,
       totalDisputes |-> stats.totalDisputes,
       openDisputes |-> stats.openDisputes,
       inReviewDisputes |-> stats.inReviewDisputes,
       resolvedDisputes |-> stats.resolvedDisputes,
       closedDisputes |-> stats.closedDisputes,
       averageResolutionTime |->
         IF stats.resolvedCount > 0
           THEN RoundedAverage100(stats.totalResolutionTime, stats.resolvedCount)
           ELSE 0,
       disputesByType |-> CountBy(docs, "dispute_type", Len(docs)),
       disputesByPriority |-> CountBy(docs, "priority", Len(docs))]

\* the accumulator of the reduce of DisputeService.getAdminWorkload
RECURSIVE getAdminWorkloadReduce(_, _)
getAdminWorkloadReduce(docs, n) ==
  IF n = 0
    THEN [totalAssigned |-> 0, inReview |-> 0, resolved |-> 0,
          totalResolutionTime |-> 0]
    ELSE LET acc == getAdminWorkloadReduce(docs, n - 1)
             dispute == docs[n]
             timed == /\ dispute.status # "under_review"
                      /\ dispute.status \in ResolvedStatuses
                      /\ dispute.resolved_at # NoTime
         IN  [totalAssigned |-> acc.totalAssigned + 1,
              inReview |-> acc.inReview
                 + (IF dispute.status = "under_review" THEN 1 ELSE 0),
              resolved |-> acc.resolved + (IF timed THEN 1 ELSE 0),
              totalResolutionTime |-> acc.totalResolutionTime
                 + (IF timed THEN dispute.resolved_at - dispute.created_at ELSE 0)]

\* DisputeService.getAdminWorkload(adminId): the data of its envelope
getAdminWorkload(coll, adminId) ==
  LET docs == listDocuments(coll, [assigned_admin_id |-> adminId],
                            CreatedAt, Len(coll), 0).documents
      stats == getAdminWorkloadReduce(docs, Len(docs))
  IN  [id |-> 0,
       totalAssigned |-> stats.totalAssigned,
       inReview |-> stats.inReview,
       resolved |-> stats.resolved,
       averageResolutionTime |->
         IF stats.resolved > 0
           THEN RoundedAverage100(stats.totalResolutionTime, stats.resolved)
           ELSE 0]

\* await DisputeService.getStats()
DisputeGetStats ==
  /\ Idle
  /\ \E o \in StoreOutcomes :
       /\ request' = Request("DisputeService.getStats", 0, NoUser, NoFilter, 0, 0)
       /\ calls' = <<Call("listDocuments", o)>>
       /\ response' = IF o = "ok" THEN Single(getStats(disputes))
                      ELSE Failure(o, "Failed to fetch dispute statistics")
       /\ pages' = NoPages
       /\ UNCHANGED <<now, stores, promises, elsewhere>>

\* await DisputeService.getAdminWorkload(adminId)
DisputeGetAdminWorkload ==
  /\ Idle
  /\ \E adminId \in Admins, o \in StoreOutcomes :
       /\ request' = Request("DisputeService.getAdminWorkload", 0, adminId,
                             NoFilter, 0, 0)
       /\ calls' = <<Call("listDocuments", o)>>
       /\ response' = IF o = "ok" THEN Single(getAdminWorkload(disputes, adminId))
                      ELSE Failure(o, "Failed to fetch admin workload")
       /\ pages' = NoPages
       /\ UNCHANGED <<now, stores, promises, elsewhere>>

\* -------------------------------------------------------- ReviewService
Ratings == {1, 2}

\* reviewData.reviewType
ReviewTypes == {"seeker_to_provider", "provider_to_seeker"}

\* updateData of ReviewService.update: a new rating, or a new comment only
UpdateDatas == {[rating |-> r] : r \in Ratings} \cup {[comment |-> "edited"]}

\* the field an updateData sets
FieldOf(updateData) == CHOOSE f \in DOMAIN updateData : TRUE

\* the document ReviewService.create writes
NewReview(id, revieweeId, rating, reviewType, t) ==
  [id |-> id, reviewee_id |-> revieweeId, rating |-> rating,
   review_type |-> reviewType, created_at |-> t]

\* ID.unique() for a collection whose documents are deleted too
UnusedIds(coll) ==
  LET free == Ids \ IdsOf(coll)
  IN  IF free = {} THEN {} ELSE {CHOOSE i \in free : \A j \in free : i <= j}

\* ReviewService.getById(reviewId)
getById(coll, id, o) ==
  IF OutcomeOn(coll, id, o) = "ok" THEN Single(getDocument(coll, id))
  ELSE Failure(OutcomeOn(coll, id, o), "Failed to fetch review")

\* reviews.reduce((sum, review) => sum + review.rating, 0) over the first n
RECURSIVE totalRating(_, _)
totalRating(docs, n) ==
  IF n = 0 THEN 0 ELSE totalRating(docs, n - 1) + docs[n].rating

\* Math.round(10 * total / count): an average in tenths, halves up
RoundedAverage10(total, count) == (20 * total + count) \div (2 * count)

\* ReviewService.getUserRatingStats(userId) with Query.equal('reviewee_id',
\* userId) left out of the query: the statistics of every stored review
getUserRatingStats_AllReviews(coll, userId, o) ==
  LET docs == listDocuments(coll, <<>>, CreatedAt, Len(coll), 0).documents
  IN  IF o # "ok"
        THEN [success |-> FALSE, averageRating |-> 0, totalReviews |-> 0,
              ratingDistribution |-> <<>>]
      ELSE IF Len(docs) = 0
        THEN [success |-> TRUE, averageRating |-> 0, totalReviews |-> 0,
              ratingDistribution |-> <<>>]
      ELSE [success |-> TRUE,
            averageRating |-> RoundedAverage10(totalRating(docs, Len(docs)), Len(docs)),
            totalReviews |-> Len(docs),
            ratingDistribution |-> CountBy(docs, "rating", Len(docs))]

\* ReviewService.getUserRatingStats(userId): success, and averageRating (in
\* tenths), totalReviews and ratingDistribution of its data.  The query sets no limit; the
\* store's default page is larger than any collection here.
getUserRatingStats(coll, userId, o) ==
  LET docs == listDocuments(coll, [reviewee_id |-> userId], CreatedAt,
                            Len(coll), 0).documents
  IN  IF o # "ok"
        THEN [success |-> FALSE, averageRating |-> 0, totalReviews |-> 0,
              ratingDistribution |-> <<>>]
      ELSE IF Len(docs) = 0
        THEN [success |-> TRUE, averageRating |-> 0, totalReviews |-> 0,
              ratingDistribution |-> <<>>]
      ELSE [success |-> TRUE,
            averageRating |-> RoundedAverage10(totalRating(docs, Len(docs)), Len(docs)),
            totalReviews |-> Len(docs),
            ratingDistribution |-> CountBy(docs, "rating", Len(docs))]

\* ReviewService.updateUserRating(userId) with the try/catch around the
\* statistics read and the profile write taken away: what it would do if a
\* failure of either were thrown on to the caller
updateUserRating_Throwing(coll, profs, userId, oList, oProfile) ==
  LET stats == getUserRatingStats(coll, userId, oList)
      listed == <<Call("listDocuments", oList)>>
      written == <<Call("updateDocument(PROFILES)", oProfile)>>
  IN  IF ~stats.success
        THEN [profiles |-> profs, calls |-> listed, thrown |-> oList]
      ELSE IF oProfile # "ok"
        THEN [profiles |-> profs, calls |-> listed \o written, thrown |-> oProfile]
      ELSE [profiles |-> [profs EXCEPT ![userId] =
                            [average_rating |-> stats.averageRating,
                             total_reviews |-> stats.totalReviews]],
            calls |-> listed \o written, thrown |-> "ok"]

\* ReviewService.updateUserRating(userId): the profiles afterwards, the calls
\* it issued, and what it throws ("ok": nothing).  It reads the statistics
\* and, if that succeeded, writes them to the profile; a failed write is
\* caught and logged.
updateUserRating(coll, profs, userId, oList, oProfile) ==
  LET stats == getUserRatingStats(coll, userId, oList)
      listed == <<Call("listDocuments", oList)>>
      written == <<Call("updateDocument(PROFILES)", oProfile)>>
  IN  IF ~stats.success
        THEN [profiles |-> profs, calls |-> listed, thrown |-> "ok"]
      ELSE IF oProfile # "ok"
        THEN [profiles |-> profs,
              calls |-> listed \o written \o <<Call("console.error", oProfile)>>,
              thrown |-> "ok"]
      ELSE [profiles |-> [profs EXCEPT ![userId] =
                            [average_rating |-> stats.averageRating,
                             total_reviews |-> stats.totalReviews]],
            calls |-> listed \o written, thrown |-> "ok"]

\* what a ReviewService operation leaves: the two collections, its envelope
\* and the calls it issued
Outcome(revs, profs, resp, issued) ==
  [reviews |-> revs, profiles |-> profs, response |-> resp, calls |-> issued]

\* the rest of an operation whose primary write left the reviews `after`:
\* await this.updateUserRating(revieweeId), inside the operation's try, and
\* then the success envelope
ThenUpdateUserRating(after, profs, revieweeId, result, issued, oList, oProfile, fallback) ==
  LET side == updateUserRating(after, profs, revieweeId, oList, oProfile)
  IN  Outcome(after, side.profiles,
              IF side.thrown # "ok" THEN Failure(side.thrown, fallback)
              ELSE Single(result),
              issued \o side.calls)

\* ReviewService.create(reviewData) with the rating update moved out of the
\* success path: it runs whether or not createDocument succeeded
createReview_Always(revs, profs, id, revieweeId, rating, reviewType, t, oCreate, oList, oProfile) ==
  LET doc == NewReview(id, revieweeId, rating, reviewType, t)
      created == <<Call("createDocument", oCreate)>>
      after == IF oCreate = "ok" THEN Append(revs, doc) ELSE revs
      side == updateUserRating(after, profs, revieweeId, oList, oProfile)
  IN  Outcome(after, side.profiles,
              IF oCreate = "ok" THEN Single(doc)
              ELSE Failure(oCreate, "Failed to create review"),
              created \o side.calls)

\* ReviewService.create(reviewData)
createReview(revs, profs, id, revieweeId, rating, reviewType, t, oCreate, oList, oProfile) ==
  LET doc == NewReview(id, revieweeId, rating, reviewType, t)
      created == <<Call("createDocument", oCreate)>>
  IN  IF oCreate # "ok"
        THEN Outcome(revs, profs, Failure(oCreate, "Failed to create review"), created)
      ELSE ThenUpdateUserRating(Append(revs, doc), profs, revieweeId, doc, created,
                                oList, oProfile, "Failed to create review")

\* ReviewService.update with the comparison against the stored rating taken
\* away: updateUserRating is awaited after every update that is written
updateReview_AlwaysRecomputes(revs, profs, id, updateData, oGet, oWrite, oList, oProfile) ==
  LET currentReview == getById(revs, id, oGet)
      got == <<Call("getDocument", OutcomeOn(revs, id, oGet))>>
      written == got \o <<Call("updateDocument", oWrite)>>
      after == updateDocument(revs, id, updateData)
  IN  IF ~currentReview.success THEN Outcome(revs, profs, currentReview, got)
      ELSE IF oWrite # "ok"
        THEN Outcome(revs, profs, Failure(oWrite, "Failed to update review"), written)
      ELSE ThenUpdateUserRating(after, profs, currentReview.data.reviewee_id,
                                getDocument(after, id), written, oList, oProfile,
                                "Failed to update review")

\* ReviewService.update(reviewId, updateData)
updateReview(revs, profs, id, updateData, oGet, oWrite, oList, oProfile) ==
  LET currentReview == getById(revs, id, oGet)
      got == <<Call("getDocument", OutcomeOn(revs, id, oGet))>>
      written == got \o <<Call("updateDocument", oWrite)>>
      after == updateDocument(revs, id, updateData)
      ratingChanged == /\ "rating" \in DOMAIN updateData
                       /\ updateData.rating # currentReview.data.rating
  IN  IF ~currentReview.success THEN Outcome(revs, profs, currentReview, got)
      ELSE IF oWrite # "ok"
        THEN Outcome(revs, profs, Failure(oWrite, "Failed to update review"), written)
      ELSE IF ~ratingChanged
        THEN Outcome(after, profs, Single(getDocument(after, id)), written)
      ELSE ThenUpdateUserRating(after, profs, currentReview.data.reviewee_id,
                                getDocument(after, id), written, oList, oProfile,
                                "Failed to update review")

\* ReviewService.delete(reviewId); the data of its success envelope is
\* undefined
deleteReview(revs, profs, id, oGet, oWrite, oList, oProfile) ==
  LET reviewResult == getById(revs, id, oGet)
      got == <<Call("getDocument", OutcomeOn(revs, id, oGet))>>
      written == got \o <<Call("deleteDocument", oWrite)>>
  IN  IF ~reviewResult.success THEN Outcome(revs, profs, reviewResult, got)
      ELSE IF oWrite # "ok"
        THEN Outcome(revs, profs, Failure(oWrite, "Failed to delete review"), written)
      ELSE ThenUpdateUserRating(deleteDocument(revs, id), profs,
                                reviewResult.data.reviewee_id, NoDoc, written,
                                oList, oProfile, "Failed to delete review")

\* the outcomes of the n store calls an operation makes one after the other:
\* each call after a failed one is never issued, so its outcome is left "ok"
ReachedOutcomes(n) ==
  {o \in [1..n -> StoreOutcomes] :
     \A i \in 1..n, j \in 1..n : (i < j /\ o[i] # "ok") => o[j] = "ok"}

\* a ReviewService operation has run and left `out`
ReviewDone(req, out, t) ==
  /\ now' = t
  /\ request' = req
  /\ reviews' = out.reviews
  /\ profiles' = out.profiles
  /\ response' = out.response
  /\ calls' = out.calls
  /\ pages' = NoPages
  /\ UNCHANGED <<disputes, payments, messages, applications, jobs, promises, elsewhere>>

\* await ReviewService.create(reviewData)
ReviewCreate ==
  /\ Idle
  /\ TotalDocs < MaxDocs
  /\ \E id \in UnusedIds(reviews), u \in Users, rating \in Ratings,
        reviewType \in ReviewTypes, t \in now..MaxTime,
        o \in ReachedOutcomes(3) :
       ReviewDone(Request("ReviewService.create", id, u, NoFilter, 0, 0),
                  createReview(reviews, profiles, id, u, rating, reviewType, t,
                               o[1], o[2], o[3]), t)

\* await ReviewService.update(reviewId, updateData)
ReviewUpdate ==
  /\ Idle
  /\ \E id \in TargetIds(reviews) \cap Ids, updateData \in UpdateDatas,
        o \in ReachedOutcomes(4) :
       ReviewDone(Request("ReviewService.update", id, NoUser,
                          FieldOf(updateData), 0, 0),
                  updateReview(reviews, profiles, id, updateData,
                               o[1], o[2], o[3], o[4]), now)

\* await ReviewService.delete(reviewId)
ReviewDelete ==
  /\ Idle
  /\ \E id \in TargetIds(reviews) \cap Ids, o \in ReachedOutcomes(4) :
       ReviewDone(Request("ReviewService.delete", id, NoUser, NoFilter, 0, 0),
                  deleteReview(reviews, profiles, id, o[1], o[2], o[3], o[4]),
                  now)

\* ReviewService.getPlatformStats(): the data of its envelope, averageRating
\* in tenths
getPlatformStats(coll) ==
  LET docs == listDocuments(coll, <<>>, CreatedAt, Len(coll), 0).documents
  IN  IF Len(docs) = 0
        THEN [id |-> 0, totalReviews |-> 0, averageRating |-> 0,
              ratingDistribution |-> <<>>, reviewsByType |-> <<>>]
      ELSE [id |-> 0, totalReviews |-> Len(docs),
            averageRating |-> RoundedAverage10(totalRating(docs, Len(docs)), Len(docs)),
            ratingDistribution |-> CountBy(docs, "rating", Len(docs)),
            reviewsByType |-> CountBy(docs, "review_type", Len(docs))]

\* await ReviewService.getUserRatingStats(userId)
ReviewGetUserRatingStats ==
  /\ Idle
  /\ \E userId \in Users, o \in StoreOutcomes :
       LET stats == getUserRatingStats(reviews, userId, o)
       IN  /\ request' = Request("ReviewService.getUserRatingStats", 0, userId,
                                 NoFilter, 0, 0)
           /\ calls' = <<Call("listDocuments", o)>>
           /\ response' =
                IF stats.success
                  THEN Single([id |-> 0, averageRating |-> stats.averageRating,
                               totalReviews |-> stats.totalReviews,
                               ratingDistribution |-> stats.ratingDistribution])
                  ELSE Failure(o, "Failed to fetch user rating statistics")
           /\ pages' = NoPages
           /\ UNCHANGED <<now, stores, promises, elsewhere>>

\* await ReviewService.getPlatformStats()
ReviewGetPlatformStats ==
  /\ Idle
  /\ \E o \in StoreOutcomes :
       /\ request' = Request("ReviewService.getPlatformStats", 0, NoUser,
                             NoFilter, 0, 0)
       /\ calls' = <<Call("listDocuments", o)>>
       /\ response' = IF o = "ok" THEN Single(getPlatformStats(reviews))
                      ELSE Failure(o, "Failed to fetch platform review statistics")
       /\ pages' = NoPages
       /\ UNCHANGED <<now, stores, promises, elsewhere>>

\* ------------------------------------------ PaymentService: statistics
RECURSIVE GCD(_, _)
GCD(a, b) == IF b = 0 THEN a ELSE GCD(b, a % b)

\* the number a / b as the division leaves it, in lowest terms; 0 / 0 is NaN
Quotient(a, b) ==
  IF b = 0 THEN [num |-> a, den |-> 0]
  ELSE [num |-> a \div GCD(a, b), den |-> b \div GCD(a, b)]

\* the accumulator of the reduce of PaymentService.getStats after the first n
\* documents
RECURSIVE getPaymentStatsReduce(_, _)
getPaymentStatsReduce(docs, n) ==
  IF n = 0
    THEN [totalTransactions |-> 0, totalAmount |-> 0, pendingAmount |-> 0,
          completedAmount |-> 0, refundedAmount |-> 0]
    ELSE LET acc == getPaymentStatsReduce(docs, n - 1)
             payment == docs[n]
         IN  [totalTransactions |-> acc.totalTransactions + 1,
              totalAmount |-> acc.totalAmount + payment.amount,
              pendingAmount |-> acc.pendingAmount
                 + (IF payment.status = "pending" THEN payment.amount ELSE 0),
              completedAmount |-> acc.completedAmount
                 + (IF payment.status = "completed" THEN payment.amount ELSE 0),
              refundedAmount |-> acc.refundedAmount
                 + (IF payment.status = "refunded" THEN payment.amount ELSE 0)]

\* PaymentService.getStats() with totalAmount / totalTransactions computed
\* whatever the number of transactions
getPaymentStats_NoGuard(coll) ==
  LET docs == listDocuments(coll, <<>>, CreatedAt, Len(coll), 0).documents
      stats == getPaymentStatsReduce(docs, Len(docs))
  IN  [id |-> 0,
       totalTransactions |-> stats.totalTransactions,
       totalAmount |-> stats.totalAmount,
       pendingAmount |-> stats.pendingAmount,
       completedAmount |-> stats.completedAmount,
       refundedAmount |-> stats.refundedAmount,
       averageTransactionValue |->
         Quotient(stats.totalAmount, stats.totalTransactions)]

\* PaymentService.getStats(), no dateRange given: the data of its envelope,
\* averageTransactionValue as the quotient the division leaves
getPaymentStats(coll) ==
  LET docs == listDocuments(coll, <<>>, CreatedAt, Len(coll), 0).documents
      stats == getPaymentStatsReduce(docs, Len(docs))
  IN  [id |-> 0,
       totalTransactions |-> stats.totalTransactions,
       totalAmount |-> stats.totalAmount,
       pendingAmount |-> stats.pendingAmount,
       completedAmount |-> stats.completedAmount,
       refundedAmount |-> stats.refundedAmount,
       averageTransactionValue |->
         IF stats.totalTransactions > 0
           THEN Quotient(stats.totalAmount, stats.totalTransactions)
           ELSE Quotient(0, 1)]

\* await PaymentService.getStats()
PaymentGetStats ==
  /\ Idle
  /\ \E o \in StoreOutcomes :
       /\ request' = Request("PaymentService.getStats", 0, NoUser, NoFilter, 0, 0)
       /\ calls' = <<Call("listDocuments", o)>>
       /\ response' = IF o = "ok" THEN Single(getPaymentStats(payments))
                      ELSE Failure(o, "Failed to fetch payment statistics")
       /\ pages' = NoPages
       /\ UNCHANGED <<now, stores, promises, elsewhere>>

\* ------------------------------------------------ AdminService: dashboard
\* the document JobService.createJob writes
NewJob(id) == [id |-> id, status |-> "open"]

\* the fields JobService.completeJob writes
CompleteJobUpdate == [status |-> "completed"]

\* completedPayments.documents.reduce((sum, payment) => sum + (payment.amount
\* || 0), 0) over the first n
RECURSIVE totalRevenue(_, _)
totalRevenue(docs, n) ==
  IF n = 0 THEN 0 ELSE totalRevenue(docs, n - 1) + docs[n].amount

\* AdminService.getDashboardStats(), no dateRange given: the job and payment
\* figures of its data (the totals of users, applications and open disputes
\* are left out), jobCompletionRate in hundredths of a percent and
\* averageJobValue in hundredths.  The queries ask for no order; the totals
\* and sums do not depend on it.
getDashboardStats(jobColl, paymentColl) ==
  LET jobsPage == listDocuments(jobColl, <<>>, "id", 1, 0)
      completedJobs == listDocuments(jobColl, [status |-> "completed"], "id", 1, 0)
      activeJobs == listDocuments(jobColl, [status |-> "active"], "id", 1, 0)
      completedPayments ==
        listDocuments(paymentColl, [status |-> "completed"], "id",
                      Len(paymentColl), 0).documents
      revenue == totalRevenue(completedPayments, Len(completedPayments))
  IN  [id |-> 0,
       totalJobs |-> jobsPage.total,
       activeJobs |-> activeJobs.total,
       completedJobs |-> completedJobs.total,
       totalPayments |-> Len(completedPayments),
       totalRevenue |-> revenue,
       jobCompletionRate |->
         IF jobsPage.total > 0
           THEN RoundedAverage100(100 * completedJobs.total, jobsPage.total)
           ELSE 0,
       averageJobValue |->
         IF Len(completedPayments) > 0
           THEN RoundedAverage100(revenue, Len(completedPayments))
           ELSE 0]

\* the store calls of getDashboardStats with outcomes o: five counts awaited
\* together, then three queries one after the other, up to the first failure
DashboardCalls(o) ==
  LET all == <<Call("Promise.all(listDocuments)", o[1]),
               Call("listDocuments", o[2]), Call("listDocuments", o[3]),
               Call("listDocuments", o[4])>>
      failed == {i \in 1..4 : o[i] # "ok"}
  IN  IF failed = {} THEN all
      ELSE SubSeq(all, 1, CHOOSE i \in failed : \A j \in failed : i <= j)

\* await AdminService.getDashboardStats()
AdminGetDashboardStats ==
  /\ Idle
  /\ \E o \in ReachedOutcomes(4) :
       /\ request' = Request("AdminService.getDashboardStats", 0, NoUser,
                             NoFilter, 0, 0)
       /\ calls' = DashboardCalls(o)
       /\ response' =
            IF \A i \in 1..4 : o[i] = "ok"
              THEN Single(getDashboardStats(jobs, payments))
              ELSE Failure(CHOOSE x \in {o[i] : i \in 1..4} : x # "ok",
                           "Failed to fetch dashboard statistics")
       /\ pages' = NoPages
       /\ UNCHANGED <<now, stores, promises, elsewhere>>

\* ------------------------------------ the fan-out, one response at a time
\* the queries issued before the first await when the two are awaited one
\* after the other (const a = await q1; const b = await q2): the first alone
IssuedAtOnce_Awaited == {1}

\* the queries issued before the first await by Promise.all([q1, q2]): the
\* array is evaluated first, so both listDocuments calls are made, and only
\* then is the promise of the two awaited
IssuedAtOnce == {1, 2}

\* the requests for a first page that are answered by a fan-out
FanOutRequests ==
  {req \in GetAllRequests : req.userId # NoUser /\ req.offset = 0}
    \cup {req \in GetUserDisputesRequests : req.arg = "all" /\ req.offset = 0}
    \cup {req \in GetUserPaymentsRequests : req.arg = "all" /\ req.offset = 0}
    \cup {req \in GetConversationRequests : req.offset = 0}

\* a fan-out operation is called: it issues its queries and awaits them
FanOutIssue ==
  /\ Idle
  /\ \E req \in FanOutRequests :
       /\ request' = req
       /\ response' = NoResponse
       /\ calls' = [q \in IssuedAtOnce |-> Call("listDocuments", "pending")]
       /\ promises' = [awaiting |-> TRUE, pending |-> IssuedAtOnce,
                       arrived |-> <<>>]
       /\ pages' = NoPages
       /\ UNCHANGED <<now, stores, elsewhere>>

\* the responses, in order of arrival, that are rejections
Rejected(arrived) == {i \in 1..Len(arrived) : arrived[i].outcome # "ok"}

\* the response of an outstanding query arrives; Promise.all is still pending,
\* that is, no rejection has arrived before
FanOutRespond ==
  /\ promises.awaiting
  /\ Rejected(promises.arrived) = {}
  /\ \E q \in promises.pending, o \in StoreOutcomes :
       /\ promises' = [promises EXCEPT
                         !.pending = @ \ {q},
                         !.arrived = Append(@, [query |-> q, outcome |-> o])]
       /\ calls' = [calls EXCEPT ![q].outcome = o]
       /\ UNCHANGED <<now, stores, request, response, pages, elsewhere>>

\* the outcome of query q among the responses arrived, "ok" if none has
OutcomeOfQuery(arrived, q) ==
  IF \E i \in 1..Len(arrived) : arrived[i].query = q
    THEN arrived[CHOOSE i \in 1..Len(arrived) : arrived[i].query = q].outcome
    ELSE "ok"

\* what await Promise.all(...) gives: "ok" when every response is an answer,
\* the rejection that arrived first otherwise
SettledOutcome(arrived) ==
  IF Rejected(arrived) = {} THEN "ok"
  ELSE arrived[CHOOSE i \in Rejected(arrived) :
                 \A j \in Rejected(arrived) : i <= j].outcome

\* the envelope of the fan-out operation of req, its queries having had the
\* outcomes o1 and o2 and their Promise.all the outcome out
FanOutEnvelope(req, o1, o2, out) ==
  IF req.op = "DisputeService.getAll"
    THEN getAll(disputes, req.userId, req.arg, req.limit, req.offset, o1, o2, out)
  ELSE IF req.op = "DisputeService.getUserDisputes"
    THEN getUserDisputes(disputes, req.userId, req.arg, req.limit, req.offset,
                         o1, o2, out)
  ELSE IF req.op = "PaymentService.getUserPayments"
    THEN getUserPayments(payments, req.userId, req.arg, req.limit, req.offset,
                         o1, o2, out)
  ELSE getConversation(messages, req.userId, req.arg, req.limit, req.offset,
                       o1, o2, out)

\* Promise.all settles, with every query answered or with the first
\* rejection, and the operation goes on to return its envelope
FanOutSettle ==
  /\ promises.awaiting
  /\ Rejected(promises.arrived) # {} \/ promises.pending = {}
  /\ response' = FanOutEnvelope(request, OutcomeOfQuery(promises.arrived, 1),
                                OutcomeOfQuery(promises.arrived, 2),
                                SettledOutcome(promises.arrived))
  /\ pages' = NextPages(request, response')
  /\ promises' = [promises EXCEPT !.awaiting = FALSE]
  /\ UNCHANGED <<now, stores, request, calls, elsewhere>>

\* ------------------------------------------------------ RealtimeService
\* the key under which a subscribe call registers its subscription:
\* `notifications_${userId}`, `job_${jobId}`,
\* `conversation_${userId1}_${userId2}`
SubscriptionId(kind, a, b) == [kind |-> kind, a |-> a, b |-> b]

JobIds == {"j1"}

\* the keys of the subscribe calls made here: subscribeToNotifications(userId),
\* subscribeToJob(jobId), subscribeToConversation(userId1, userId2)
SubscriptionIds ==
  {SubscriptionId("notifications", u, NoUser) : u \in Users}
    \cup {SubscriptionId("job", j, NoUser) : j \in JobIds}
    \cup {SubscriptionId("conversation", u1, u2) : u1 \in Users, u2 \in Users}

\* client.subscribe(...) answers with an unsubscribe callback or throws
ClientOutcomes == {"ok", "error", "error_nomsg"}

\* Map.prototype.set(key, value)
MapSet(map, key, value) ==
  [k \in DOMAIN map \cup {key} |-> IF k = key THEN value ELSE map[k]]

\* Map.prototype.delete(key)
MapDelete(map, key) == [k \in DOMAIN map \ {key} |-> map[k]]

\* a subscription the client has made for a subscribe call: the key the call
\* registered it under, how often its unsubscribe callback has been invoked,
\* and whether the handle the call returned has been invoked
NewSubscription(key) == [key |-> key, invoked |-> 0, cancelled |-> FALSE]

\* the subscriptions of the client after the callbacks of those in I are
\* invoked once more
Invoke(client, I) ==
  [i \in 1..Len(client) |->
     IF i \in I THEN [client[i] EXCEPT !.invoked = @ + 1] ELSE client[i]]

\* a call of RealtimeService that is no service request of the store
RealtimeCall(op, id) == Request(op, id, NoUser, NoFilter, 0, 0)

\* RealtimeService.subscribeToNotifications / subscribeToJob /
\* subscribeToConversation: the client subscribes, the callback it gives is
\* set in the Map under the key of the call, and a handle is returned
RealtimeSubscribe ==
  /\ Len(realtime.client) < MaxTracked
  /\ \E key \in SubscriptionIds, o \in ClientOutcomes :
       LET n == Len(realtime.client) + 1
       IN  /\ request' = RealtimeCall("RealtimeService.subscribe", n)
           /\ IF o = "ok"
                THEN /\ realtime' =
                          [subscriptions |-> MapSet(realtime.subscriptions, key, n),
                           client |-> Append(realtime.client, NewSubscription(key))]
                     /\ response' = Single([id |-> n])
                ELSE /\ realtime' = realtime
                     /\ response' = Failure(o, "Failed to subscribe")
           /\ calls' = <<Call("client.subscribe", o)>>
           /\ UNCHANGED <<now, stores, pages, promises, jobsCompleted, tasks, auth, notifications>>

\* RealtimeService.subscribeToUserStatus: a placeholder, nothing is subscribed
\* and nothing is registered
RealtimeSubscribeToUserStatus ==
  /\ request' = RealtimeCall("RealtimeService.subscribeToUserStatus", 0)
  /\ response' = Single(NoDoc)
  /\ calls' = <<>>
  /\ UNCHANGED <<now, stores, pages, promises, realtime, jobsCompleted, tasks, auth, notifications>>

\* data.unsubscribe() of the envelope subscribe call i returned:
\* unsubscribe(); this.subscriptions.delete(subscriptionId)
RealtimeHandle ==
  \E i \in 1..Len(realtime.client) :
    /\ ~realtime.client[i].cancelled
    /\ request' = RealtimeCall("unsubscribe", i)
    /\ response' = NoResponse
    /\ calls' = <<>>
    /\ realtime' =
         [subscriptions |-> MapDelete(realtime.subscriptions, realtime.client[i].key),
          client |-> [Invoke(realtime.client, {i}) EXCEPT ![i].cancelled = TRUE]]
    /\ UNCHANGED <<now, stores, pages, promises, jobsCompleted, tasks, auth, notifications>>

\* RealtimeService.unsubscribeAll(): every callback in the Map is invoked (a
\* throw is caught and logged), then the Map is cleared
RealtimeUnsubscribeAll ==
  /\ request' = RealtimeCall("RealtimeService.unsubscribeAll", 0)
  /\ response' = NoResponse
  /\ calls' = <<>>
  /\ realtime' =
       [subscriptions |-> <<>>,
        client |-> Invoke(realtime.client,
                          {realtime.subscriptions[k] : k \in DOMAIN realtime.subscriptions})]
  /\ UNCHANGED <<now, stores, pages, promises, jobsCompleted, tasks, auth, notifications>>

\* RealtimeService.getActiveSubscriptionCount()
getActiveSubscriptionCount == Cardinality(DOMAIN realtime.subscriptions)

\* ------------------------------ ReviewService, calls running side by side
\* The store calls of every task below are answered; between two awaits of
\* one task any step of another task can take place.

\* the variables a step of a task leaves alone, the collections aside
callerState == <<now, request, response, calls, pages, promises>>

\* the fields updateUserRating writes to the profile from statistics it read
RatingFields(stats) ==
  [average_rating |-> stats.averageRating, total_reviews |-> stats.totalReviews]

\* ReviewService.create(reviewData) up to its first await: createDocument
ReviewTaskCreate(t) ==
  /\ tasks[t].pc = "idle"
  /\ \E id \in UnusedIds(reviews), u \in Users, rating \in Ratings,
        reviewType \in ReviewTypes :
       /\ reviews' = Append(reviews, NewReview(id, u, rating, reviewType, now))
       /\ tasks' = [tasks EXCEPT ![t] = [op |-> "ReviewService.create",
                                        pc |-> "written", reviewee |-> u]]
  /\ UNCHANGED <<callerState, disputes, payments, messages, applications,
                 profiles, jobs, realtime, jobsCompleted, auth, notifications>>

\* ReviewService.delete(reviewId) up to its first await: getById
ReviewTaskGet(t) ==
  /\ tasks[t].pc = "idle"
  /\ \E id \in IdsOf(reviews) :
       tasks' = [tasks EXCEPT ![t] =
                   [op |-> "ReviewService.delete", pc |-> "got", id |-> id,
                    reviewee |-> getDocument(reviews, id).reviewee_id]]
  /\ UNCHANGED <<callerState, stores, realtime, jobsCompleted, auth, notifications>>

\* ReviewService.delete: deleteDocument; the store rejects it when the
\* review is gone, and the call returns the failure envelope
ReviewTaskDelete(t) ==
  /\ tasks[t].pc = "got"
  /\ IF tasks[t].id \in IdsOf(reviews)
       THEN /\ reviews' = deleteDocument(reviews, tasks[t].id)
            /\ tasks' = [tasks EXCEPT ![t].pc = "written"]
       ELSE /\ reviews' = reviews
            /\ tasks' = [tasks EXCEPT ![t].pc = "failed"]
  /\ UNCHANGED <<callerState, disputes, payments, messages, applications,
                 profiles, jobs, realtime, jobsCompleted, auth, notifications>>

\* updateUserRating: await this.getUserRatingStats(userId)
ReviewTaskRead(t) ==
  /\ tasks[t].pc = "written"
  /\ tasks' = [tasks EXCEPT ![t] =
                 [op |-> tasks[t].op, pc |-> "listed", reviewee |-> tasks[t].reviewee,
                  stats |-> getUserRatingStats(reviews, tasks[t].reviewee, "ok")]]
  /\ UNCHANGED <<callerState, stores, realtime, jobsCompleted, auth, notifications>>

\* updateUserRating: await databases.updateDocument(PROFILES, userId, ...),
\* after which the operation returns success
ReviewTaskWriteProfile(t) ==
  /\ tasks[t].pc = "listed"
  /\ profiles' = [profiles EXCEPT ![tasks[t].reviewee] = RatingFields(tasks[t].stats)]
  /\ tasks' = [tasks EXCEPT ![t].pc = "returned"]
  /\ UNCHANGED <<callerState, disputes, payments, messages, applications,
                 reviews, jobs, realtime, jobsCompleted, auth, notifications>>

\* ---------------------- ProfileService.incrementJobsCompleted, side by side

\* what a strand of calls has done so far: the calls it has started, and for
\* each profile the calls on it that have returned success
Started(t) == IF tasks[t].pc = "idle" THEN 0 ELSE tasks[t].started
Succeeded(t) == IF tasks[t].pc = "idle" THEN [p \in Users |-> 0] ELSE tasks[t].succeeded

\* incrementJobsCompleted(profileId) up to its first await: getProfileById,
\* whose failure envelope is returned as it is; a strand starts its next call
\* when its last one has returned
ProfileTaskGet(t) ==
  /\ tasks[t].pc \in {"idle", "returned", "failed"}
  /\ Started(t) < MaxLimit
  /\ \E profileId \in Users, o \in {"ok", "error"} :
       tasks' = [tasks EXCEPT ![t] =
                   [op |-> "ProfileService.incrementJobsCompleted",
                    pc |-> IF o = "ok" THEN "got" ELSE "failed",
                    profileId |-> profileId,
                    newCount |-> jobsCompleted[profileId] + 1,
                    started |-> Started(t) + 1,
                    succeeded |-> Succeeded(t)]]
  /\ UNCHANGED <<callerState, stores, realtime, jobsCompleted, auth, notifications>>

\* incrementJobsCompleted: updateDocument({jobsCompleted: newCount})
ProfileTaskUpdate(t) ==
  /\ tasks[t].pc = "got"
  /\ \E o \in {"ok", "error"} :
       IF o = "ok"
         THEN /\ jobsCompleted' =
                   [jobsCompleted EXCEPT ![tasks[t].profileId] = tasks[t].newCount]
              /\ tasks' = [tasks EXCEPT ![t].pc = "returned",
                                        ![t].succeeded[tasks[t].profileId] = @ + 1]
         ELSE /\ jobsCompleted' = jobsCompleted
              /\ tasks' = [tasks EXCEPT ![t].pc = "failed"]
  /\ UNCHANGED <<callerState, stores, realtime, auth, notifications>>

\* ----------------------------- DisputeService.addEvidence, side by side
EvidenceUrls == {<<"e1">>, <<"e2">>}

\* DisputeService.create with disputeData.evidenceUrls given or left out
DisputeCreateWithEvidence ==
  /\ Len(disputes) < MaxTracked
  /\ \E id \in UnusedIds(disputes), evidenceUrls \in {<<>>, <<"e0">>} :
       disputes' = Append(disputes,
                     [NewDispute(id, "U", "V", "payment", "medium", now)
                        EXCEPT !.evidence_urls = evidenceUrls])
  /\ UNCHANGED <<callerState, payments, messages, applications, reviews,
                 profiles, jobs, elsewhere>>

\* addEvidence(disputeId, evidenceUrls) up to its first await: getById, whose
\* failure envelope is returned as it is; then updatedEvidence is computed
DisputeTaskGet(t) ==
  /\ tasks[t].pc \in {"idle", "returned", "failed"}
  /\ Started(t) < MaxLimit
  /\ \E disputeId \in IdsOf(disputes), evidenceUrls \in EvidenceUrls,
        o \in {"ok", "error"} :
       tasks' = [tasks EXCEPT ![t] =
                   [op |-> "DisputeService.addEvidence",
                    pc |-> IF o = "ok" THEN "got" ELSE "failed",
                    disputeId |-> disputeId,
                    evidenceUrls |-> evidenceUrls,
                    updatedEvidence |->
                      getDocument(disputes, disputeId).evidence_urls \o evidenceUrls,
                    started |-> Started(t) + 1]]
  /\ UNCHANGED <<callerState, stores, realtime, jobsCompleted, auth, notifications>>

\* addEvidence: updateDocument({evidence_urls: updatedEvidence, ...})
DisputeTaskUpdate(t) ==
  /\ tasks[t].pc = "got"
  /\ \E o \in {"ok", "error"} :
       IF o = "ok"
         THEN /\ disputes' = updateDocument(disputes, tasks[t].disputeId,
                               [evidence_urls |-> tasks[t].updatedEvidence])
              /\ tasks' = [tasks EXCEPT ![t].pc = "returned"]
         ELSE /\ disputes' = disputes
              /\ tasks' = [tasks EXCEPT ![t].pc = "failed"]
  /\ UNCHANGED <<callerState, payments, messages, applications, reviews,
                 profiles, jobs, realtime, jobsCompleted, auth, notifications>>

\* ------------------------------------------------------------- authStore
\* state.profile === null
NoProfile == [id |-> NoUser, name |-> "-"]

ProfileNames == {"n1", "n2"}

\* a profile document as a service call returns it
Profile(id, name) == [id |-> id, name |-> name]

\* the state an AuthStore is constructed with
NoAuth ==
  [user |-> NoUser, profile |-> NoProfile, isAuthenticated |-> FALSE,
   loading |-> TRUE, error |-> ""]

\* the state clearAuth() leaves
clearAuth ==
  [user |-> NoUser, profile |-> NoProfile, isAuthenticated |-> FALSE,
   loading |-> FALSE, error |-> ""]

\* the strand can start a call: it has none in progress
Free(t) == tasks[t].pc \in {"idle", "returned"}

\* the frame of a step of the auth store
authFrame == <<callerState, stores, realtime, jobsCompleted, notifications>>

\* init() up to its first await: AuthService.getCurrentUser()
AuthInit(t) ==
  /\ Free(t)
  /\ auth' = [auth EXCEPT !.loading = TRUE, !.error = ""]
  /\ tasks' = [tasks EXCEPT ![t] = [op |-> "authStore.init", pc |-> "getCurrentUser"]]
  /\ UNCHANGED authFrame

\* init() when getCurrentUser has answered: the user is installed and
\* loadProfile() runs up to its await import(...), or clearAuth()
AuthInitResumes(t) ==
  /\ tasks[t].pc = "getCurrentUser"
  /\ \E o \in StoreOutcomes, user \in Users :
       IF o = "ok"
         THEN /\ auth' = [auth EXCEPT !.user = user, !.isAuthenticated = TRUE]
              /\ tasks' = [tasks EXCEPT ![t].pc = "import"]
         ELSE /\ auth' = clearAuth
              /\ tasks' = [tasks EXCEPT ![t].pc = "returned"]
  /\ UNCHANGED authFrame

\* loadProfile() when the import has resolved: this.state.user.$id is read
\* (a TypeError when the user is null by now, caught and logged) and
\* ProfileService.getProfileByUserId is awaited
AuthLoadProfileImported(t) ==
  /\ tasks[t].op = "authStore.init" /\ tasks[t].pc = "import"
  /\ IF auth.user = NoUser
       THEN /\ auth' = [auth EXCEPT !.loading = FALSE]
            /\ tasks' = [tasks EXCEPT ![t].pc = "returned"]
       ELSE /\ auth' = auth
            /\ tasks' = [tasks EXCEPT ![t] =
                 [op |-> "authStore.init", pc |-> "getProfileByUserId",
                  userId |-> auth.user]]
  /\ UNCHANGED authFrame

\* loadProfile() when getProfileByUserId has answered, and the finally of init()
AuthLoadProfileResumes(t) ==
  /\ tasks[t].pc = "getProfileByUserId"
  /\ \E o \in StoreOutcomes, name \in ProfileNames :
       auth' = IF o = "ok"
                 THEN [auth EXCEPT !.profile = Profile(tasks[t].userId, name),
                                   !.loading = FALSE]
                 ELSE [auth EXCEPT !.loading = FALSE]
  /\ tasks' = [tasks EXCEPT ![t] = [op |-> "authStore.init", pc |-> "returned"]]
  /\ UNCHANGED authFrame

\* login(email, password) up to its await: AuthService.login
AuthLogin(t) ==
  /\ Free(t)
  /\ auth' = [auth EXCEPT !.loading = TRUE, !.error = ""]
  /\ tasks' = [tasks EXCEPT ![t] = [op |-> "authStore.login", pc |-> "login"]]
  /\ UNCHANGED authFrame

\* register(email, password, name, role) up to its await: AuthService.register
AuthRegister(t) ==
  /\ Free(t)
  /\ auth' = [auth EXCEPT !.loading = TRUE, !.error = ""]
  /\ tasks' = [tasks EXCEPT ![t] = [op |-> "authStore.register", pc |-> "login"]]
  /\ UNCHANGED authFrame

\* login() or register() when the service has answered
AuthLoginResumes(t) ==
  /\ tasks[t].pc = "login"
  /\ \E o \in StoreOutcomes, user \in Users, name \in ProfileNames :
       auth' = IF o = "ok"
                 THEN [auth EXCEPT !.user = user, !.profile = Profile(user, name),
                                   !.isAuthenticated = TRUE, !.loading = FALSE]
                 ELSE [auth EXCEPT !.loading = FALSE,
                                   !.error = ErrorOf(o, IF tasks[t].op = "authStore.login"
                                                          THEN "Login failed"
                                                          ELSE "Registration failed")]
  /\ tasks' = [tasks EXCEPT ![t].pc = "returned"]
  /\ UNCHANGED authFrame

\* updateProfile(profileData) up to its await import(...); it returns at once
\* when there is no user or no profile
AuthUpdateProfile(t) ==
  /\ Free(t)
  /\ tasks' = [tasks EXCEPT ![t] =
       [op |-> "authStore.updateProfile",
        pc |-> IF auth.user = NoUser \/ auth.profile = NoProfile
                 THEN "returned" ELSE "import"]]
  /\ UNCHANGED <<authFrame, auth>>

\* updateProfile() when the import has resolved: this.state.profile.$id is
\* read (a TypeError when the profile is null by now, caught) and
\* ProfileService.updateProfile is awaited
AuthUpdateProfileImported(t) ==
  /\ tasks[t].op = "authStore.updateProfile" /\ tasks[t].pc = "import"
  /\ IF auth.profile = NoProfile
       THEN tasks' = [tasks EXCEPT ![t].pc = "returned"]
       ELSE \E name \in ProfileNames :
              tasks' = [tasks EXCEPT ![t] =
                [op |-> "authStore.updateProfile", pc |-> "updateProfile",
                 profileId |-> auth.profile.id, name |-> name]]
  /\ UNCHANGED <<authFrame, auth>>

\* updateProfile() when ProfileService.updateProfile has answered
AuthUpdateProfileResumes(t) ==
  /\ tasks[t].pc = "updateProfile"
  /\ \E o \in StoreOutcomes :
       auth' = IF o = "ok"
                 THEN [auth EXCEPT !.profile = Profile(tasks[t].profileId, tasks[t].name)]
                 ELSE auth
  /\ tasks' = [tasks EXCEPT ![t] = [op |-> "authStore.updateProfile", pc |-> "returned"]]
  /\ UNCHANGED authFrame

\* logout() up to its await: AuthService.logout()
AuthLogout(t) ==
  /\ Free(t)
  /\ tasks' = [tasks EXCEPT ![t] = [op |-> "authStore.logout", pc |-> "logout"]]
  /\ UNCHANGED <<authFrame, auth>>

\* logout() when the service has answered: finally clearAuth()
AuthLogoutResumes(t) ==
  /\ tasks[t].pc = "logout"
  /\ auth' = clearAuth
  /\ tasks' = [tasks EXCEPT ![t].pc = "returned"]
  /\ UNCHANGED authFrame

\* ---------------------------------------------------- NotificationService
\* the document NotificationService.create stores
NewNotification(id, userId, t) ==
  [id |-> id, user_id |-> userId, is_read |-> FALSE, created_at |-> t]

\* await NotificationService.create(notificationData)
NotificationCreate ==
  /\ Idle
  /\ Len(notifications) < MaxDocs
  /\ \E id \in FreshIds(notifications), userId \in Users, t \in now..MaxTime,
        o \in StoreOutcomes :
       /\ now' = t
       /\ request' = Request("NotificationService.create", id, userId, NoFilter, 0, 0)
       /\ calls' = <<Call("createDocument", o)>>
       /\ IF o = "ok"
            THEN /\ notifications' = Append(notifications, NewNotification(id, userId, t))
                 /\ response' = Single(NewNotification(id, userId, t))
            ELSE /\ notifications' = notifications
                 /\ response' = Failure(o, "Failed to create notification")
       /\ pages' = NoPages
       /\ UNCHANGED <<stores, promises, realtime, jobsCompleted, tasks, auth>>

\* await NotificationService.markAsRead(notificationId)
NotificationMarkAsRead ==
  /\ Idle
  /\ \E id \in TargetIds(notifications), o \in StoreOutcomes :
       LET out == OutcomeOn(notifications, id, o)
           after == updateDocument(notifications, id, [is_read |-> TRUE])
       IN  /\ request' = Request("NotificationService.markAsRead", id, NoUser, NoFilter, 0, 0)
           /\ calls' = <<Call("updateDocument", out)>>
           /\ IF out = "ok"
                THEN /\ notifications' = after
                     /\ response' = Single(getDocument(after, id))
                ELSE /\ notifications' = notifications
                     /\ response' = Failure(out, "Failed to mark notification as read")
           /\ pages' = NoPages
           /\ UNCHANGED <<now, stores, promises, realtime, jobsCompleted, tasks, auth>>

\* the page listDocuments answers to [Query.equal('user_id', userId),
\* Query.equal('is_read', false)]
unreadNotifications(coll, userId) ==
  SelectSeq(coll, LAMBDA d : Matches(d, [user_id |-> userId, is_read |-> FALSE]))

\* the collection after the updateDocument calls markAllAsRead issued, one
\* for each listed document: those the store accepted (written[id]) are
\* applied whatever came of the others
markAllAsReadWrites(coll, listed, written) ==
  [i \in 1..Len(coll) |->
     IF coll[i].id \in IdsOf(listed) /\ written[coll[i].id]
       THEN Patched(coll[i], [is_read |-> TRUE])
       ELSE coll[i]]

\* await NotificationService.markAllAsRead(userId): the listing, the updates
\* issued together, and await Promise.all(updatePromises), which rejects as
\* soon as one update is rejected
NotificationMarkAllAsRead ==
  /\ Idle
  /\ \E userId \in Users, o \in StoreOutcomes, written \in [Ids -> BOOLEAN] :
       LET listed == unreadNotifications(notifications, userId)
           rejected == {id \in IdsOf(listed) : ~written[id]}
       IN  /\ request' = Request("NotificationService.markAllAsRead", 0, userId,
                                 NoFilter, 0, 0)
           /\ IF o # "ok"
                THEN /\ calls' = <<Call("listDocuments", o)>>
                     /\ notifications' = notifications
                     /\ response' = Failure(o, "Failed to mark all notifications as read")
                ELSE /\ calls' = <<Call("listDocuments", o),
                                   Call("updateDocument",
                                        IF rejected = {} THEN "ok" ELSE "error")>>
                     /\ notifications' = markAllAsReadWrites(notifications, listed, written)
                     /\ response' = IF rejected = {} THEN Single(NoDoc)
                                    ELSE Failure("error", "Failed to mark all notifications as read")
           /\ pages' = NoPages
           /\ UNCHANGED <<now, stores, promises, realtime, jobsCompleted, tasks, auth>>

\* ------------------------------- MessageService: the conversations of a user
\* limit: number = 20
DefaultConversationLimit == 20

\* await MessageService.markAsRead(messageId)
MessageMarkAsRead ==
  /\ Idle
  /\ \E id \in TargetIds(messages), o \in StoreOutcomes :
       LET out == OutcomeOn(messages, id, o)
           after == updateDocument(messages, id, [is_read |-> TRUE])
       IN  /\ request' = Request("MessageService.markAsRead", id, NoUser, NoFilter, 0, 0)
           /\ calls' = <<Call("updateDocument", out)>>
           /\ IF out = "ok"
                THEN /\ messages' = after
                     /\ response' = Single(getDocument(after, id))
                ELSE /\ messages' = messages
                     /\ response' = Failure(out, "Failed to mark message as read")
           /\ pages' = NoPages
           /\ UNCHANGED <<now, disputes, payments, applications, reviews, profiles,
                          jobs, promises, elsewhere>>

\* message.sender_id === userId ? message.recipient_id : message.sender_id
partnerId(message, userId) ==
  IF message.sender_id = userId THEN message.recipient_id ELSE message.sender_id

\* the values of conversationsMap, in insertion order, after the forEach of
\* getUserConversations has visited the first n of allMessages
RECURSIVE conversationsMap(_, _, _)
conversationsMap(allMessages, userId, n) ==
  IF n = 0 THEN <<>>
  ELSE LET before == conversationsMap(allMessages, userId, n - 1)
           message == allMessages[n]
           partner == partnerId(message, userId)
           has == \E i \in 1..Len(before) : before[i].userId = partner
           map == IF has THEN before
                  ELSE Append(before, [userId |-> partner, lastMessage |-> message,
                                       unreadCount |-> 0])
       IN  [i \in 1..Len(map) |->
              IF map[i].userId # partner THEN map[i]
              ELSE [userId |-> partner,
                    lastMessage |->
                      IF message.sent_at > map[i].lastMessage.sent_at
                        THEN message ELSE map[i].lastMessage,
                    unreadCount |->
                      map[i].unreadCount
                        + (IF message.recipient_id = userId /\ ~message.is_read
                             THEN 1 ELSE 0)]]

\* .sort((a, b) => time(b.lastMessage.sent_at) - time(a.lastMessage.sent_at))
SortByLastMessage(conversations) ==
  LET k == [i \in 1..Len(conversations) |-> conversations[i].lastMessage.sent_at]
  IN  [r \in 1..Len(conversations) |->
         conversations[CHOOSE i \in 1..Len(conversations) : RankDesc(k, i) = r]]

\* MessageService.getUserConversations(userId, limit, offset)
getUserConversations(coll, userId, limit, offset, out) ==
  LET sentMessages == listDocuments(coll, [sender_id |-> userId], SentAt, Len(coll), 0)
      receivedMessages == listDocuments(coll, [recipient_id |-> userId], SentAt, Len(coll), 0)
      allMessages == sentMessages.documents \o receivedMessages.documents
      map == conversationsMap(allMessages, userId, Len(allMessages))
      conversations == Slice(SortByLastMessage(map), offset, offset + limit)
  IN  IF out # "ok" THEN Failure(out, "Failed to fetch user conversations")
      ELSE Page(conversations, Len(map))

\* await MessageService.getUserConversations(userId)
MessageGetUserConversations ==
  /\ Idle
  /\ \E userId \in Users, o \in QueryOutcomes(TRUE) :
       /\ request' = Request("MessageService.getUserConversations", 0, userId,
                             NoFilter, DefaultConversationLimit, 0)
       /\ response' = getUserConversations(messages, userId,
                                           DefaultConversationLimit, 0, o[3])
       /\ calls' = QueryCalls(TRUE, o)
       /\ pages' = NoPages
       /\ UNCHANGED <<now, stores, promises, elsewhere>>

\* --------------------------------------------------------- specification
Init ==
  /\ now = 1
  /\ disputes = <<>>
  /\ payments = <<>>
  /\ messages = <<>>
  /\ applications = <<>>
  /\ reviews = <<>>
  /\ profiles = [u \in Users |-> [average_rating |-> 0, total_reviews |-> 0]]
  /\ jobs = <<>>
  /\ request = NoRequest
  /\ response = NoResponse
  /\ calls = <<>>
  /\ pages = NoPages
  /\ promises = NoPromises
  /\ realtime = NoSubscriptions
  /\ jobsCompleted = [p \in Users |-> 0]
  /\ auth = NoAuth
  /\ notifications = <<>>
  /\ tasks = NoTasks

\* the fields of a document that the queries and status changes never read
\* are the same in every document these specifications create
Plain(resp) ==
  resp.success =>
    /\ "dispute_type" \in DOMAIN resp.data =>
          resp.data.dispute_type = "payment" /\ resp.data.priority = "medium"
    /\ "amount" \in DOMAIN resp.data => resp.data.amount = 1
    /\ "review_type" \in DOMAIN resp.data =>
          resp.data.review_type = "seeker_to_provider"

\* DisputeService's queries, over any disputes its create can store
NextDispute ==
  \/ DisputeCreate /\ Plain(response')
  \/ DisputeGetAll
  \/ DisputeGetUserDisputes
  \/ Return

SpecDispute == Init /\ [][NextDispute]_vars

\* PaymentService's queries, over any payments its create can store
NextPayment ==
  \/ PaymentCreate /\ Plain(response')
  \/ PaymentGetUserPayments
  \/ Return

SpecPayment == Init /\ [][NextPayment]_vars

\* MessageService's conversation query, over any messages sent
NextMessage ==
  \/ MessageSend
  \/ MessageGetConversation
  \/ Return

SpecMessage == Init /\ [][NextMessage]_vars

\* the status of applications, over any calls of create and updateStatus
NextApplication ==
  \/ Len(applications) < MaxTracked /\ ApplicationCreate
  \/ ApplicationUpdateStatus
  \/ Return

SpecApplication == Init /\ [][NextApplication]_vars

\* the status and escrow status of payments
NextPaymentStatus ==
  \/ Len(payments) < MaxTracked /\ PaymentCreate /\ Plain(response')
  \/ PaymentUpdateStatus
  \/ PaymentReleaseEscrow
  \/ PaymentRefundEscrow
  \/ Return

SpecPaymentStatus == Init /\ [][NextPaymentStatus]_vars

\* the status of disputes and the statistics computed from it; the parties
\* of a dispute play no part in either, so U raises every dispute, against V
NextDisputeStatus ==
  \/ /\ Len(disputes) < MaxTracked
     /\ DisputeCreate
     /\ request'.userId = "U" /\ request'.arg = "V"
     /\ Plain(response')
  \/ DisputeUpdateStatus
  \/ DisputeAssignToAdmin
  \/ DisputeGetStats
  \/ DisputeGetAdminWorkload
  \/ Return

SpecDisputeStatus == Init /\ [][NextDisputeStatus]_vars

\* reviews and the rating fields of the profiles derived from them; the time
\* of a review plays no part in either, so the clock stands still
NextReview ==
  \/ /\ Len(reviews) < MaxTracked
     /\ ReviewCreate
     /\ now' = now
     /\ Plain(response')
  \/ ReviewUpdate
  \/ ReviewDelete
  \/ Return

SpecReview == Init /\ [][NextReview]_vars

\* ---------------------------------------- specification of the statistics
\* reviewData.rating of the reviews the statistics are computed from
StatRatings == {3, 4, 5}

\* the collections of at most max documents, each any of docs, with the ids
\* ID.unique() gives them in creation order
Stored(docs, max) ==
  UNION {{[i \in 1..n |-> [s[i] EXCEPT !.id = i]] : s \in [1..n -> docs]} :
           n \in 0..max}

\* a review as ReviewService.create leaves it
ReviewDocs ==
  {NewReview(1, u, r, ty, 1) : u \in Users, r \in StatRatings, ty \in ReviewTypes}

\* a payment as PaymentService.create leaves it, or completed since
PaymentDocs ==
  {Patched(NewPayment(1, "U", "V", a, 1), PaymentStatusUpdate(st)) :
     a \in Amounts, st \in {"pending", "completed"}}

\* a job as JobService.createJob leaves it, or completed since
JobDocs == {NewJob(1), Patched(NewJob(1), CompleteJobUpdate)}

\* a dispute as DisputeService.create leaves it, or assigned to the admin
\* since, or assigned and then resolved with a resolution at MaxTime
DisputeDocs ==
  UNION {LET created == NewDispute(1, "U", "V", ty, pr, 1)
             assigned == Patched(created, AssignToAdminUpdate("A", 1))
         IN  {created, assigned,
              Patched(assigned,
                      DisputeStatusUpdate("resolved_in_favor_of_seeker", "A",
                                          TRUE, MaxTime))} :
           ty \in DisputeTypes, pr \in Priorities}

\* the statistics read the collections and write nothing, so they start from
\* any collections the other operations can have left: those of one service
\* at a time (the dashboard reads jobs and payments), no profile written yet
InitStats ==
  /\ now = MaxTime
  /\ \/ /\ reviews \in Stored(ReviewDocs, MaxDocs)
        /\ disputes = <<>> /\ payments = <<>> /\ jobs = <<>>
     \/ /\ disputes \in Stored(DisputeDocs, MaxDocs)
        /\ reviews = <<>> /\ payments = <<>> /\ jobs = <<>>
     \/ /\ payments \in Stored(PaymentDocs, MaxDocs)
        /\ jobs \in Stored(JobDocs, MaxDocs - Len(payments))
        /\ reviews = <<>> /\ disputes = <<>>
  /\ messages = <<>>
  /\ applications = <<>>
  /\ profiles = [u \in Users |-> [average_rating |-> 0, total_reviews |-> 0]]
  /\ request = NoRequest
  /\ response = NoResponse
  /\ calls = <<>>
  /\ pages = NoPages
  /\ promises = NoPromises
  /\ realtime = NoSubscriptions
  /\ jobsCompleted = [p \in Users |-> 0]
  /\ auth = NoAuth
  /\ notifications = <<>>
  /\ tasks = NoTasks

NextStats ==
  \/ ReviewGetUserRatingStats
  \/ ReviewGetPlatformStats
  \/ PaymentGetStats
  \/ DisputeGetStats
  \/ DisputeGetAdminWorkload
  \/ AdminGetDashboardStats
  \/ Return

SpecStats == InitStats /\ [][NextStats]_vars

\* the fan-out operations with the responses of their two queries arriving
\* one at a time, in either order, over any MaxTracked documents create and
\* send store
NextFanOut ==
  \/ TotalDocs < MaxTracked /\ DisputeCreate /\ Plain(response')
  \/ TotalDocs < MaxTracked /\ PaymentCreate /\ Plain(response')
  \/ TotalDocs < MaxTracked /\ MessageSend
  \/ FanOutIssue
  \/ FanOutRespond
  \/ FanOutSettle
  \/ Return

SpecFanOut == Init /\ [][NextFanOut]_vars

\* RealtimeService: any subscribe calls, handles invoked and teardowns
NextRealtime ==
  \/ RealtimeSubscribe
  \/ RealtimeSubscribeToUserStatus
  \/ RealtimeHandle
  \/ RealtimeUnsubscribeAll

SpecRealtime == Init /\ [][NextRealtime]_vars

\* ReviewService.create and delete calls running side by side
NextReviewRace ==
  \E t \in Tasks :
    \/ ReviewTaskCreate(t)
    \/ ReviewTaskGet(t)
    \/ ReviewTaskDelete(t)
    \/ ReviewTaskRead(t)
    \/ ReviewTaskWriteProfile(t)

SpecReviewRace == Init /\ [][NextReviewRace]_vars

\* ProfileService.incrementJobsCompleted calls running side by side
NextProfileRace ==
  \E t \in Tasks :
    \/ ProfileTaskGet(t)
    \/ ProfileTaskUpdate(t)

SpecProfileRace == Init /\ [][NextProfileRace]_vars

\* DisputeService.addEvidence calls running side by side
NextEvidenceRace ==
  \/ DisputeCreateWithEvidence
  \/ \E t \in Tasks :
       \/ DisputeTaskGet(t)
       \/ DisputeTaskUpdate(t)

SpecEvidenceRace == Init /\ [][NextEvidenceRace]_vars

\* the calls on the auth store, running side by side
NextAuth ==
  \E t \in Tasks :
    \/ AuthInit(t)
    \/ AuthInitResumes(t)
    \/ AuthLoadProfileImported(t)
    \/ AuthLoadProfileResumes(t)
    \/ AuthLogin(t)
    \/ AuthRegister(t)
    \/ AuthLoginResumes(t)
    \/ AuthUpdateProfile(t)
    \/ AuthUpdateProfileImported(t)
    \/ AuthUpdateProfileResumes(t)
    \/ AuthLogout(t)
    \/ AuthLogoutResumes(t)

SpecAuth == Init /\ [][NextAuth]_vars

\* the notifications of the users and their is_read flags
NextNotification ==
  \/ NotificationCreate
  \/ NotificationMarkAsRead
  \/ NotificationMarkAllAsRead
  \/ Return

SpecNotification == Init /\ [][NextNotification]_vars

\* the conversations of a user, over any messages sent and read
NextConversations ==
  \/ MessageSend
  \/ MessageMarkAsRead
  \/ MessageGetUserConversations
  \/ Return

SpecConversations == Init /\ [][NextConversations]_vars

\* (end of the specifications)

\* ================================================================ claims
\* what the claims say of a call and its envelope

IsDisputeFanOut(req) ==
  \/ req.op = "DisputeService.getAll" /\ req.userId # NoUser
  \/ req.op = "DisputeService.getUserDisputes" /\ req.arg = "all"

IsPaymentFanOut(req) ==
  req.op = "PaymentService.getUserPayments" /\ req.arg = "all"

IsMessageFanOut(req) == req.op = "MessageService.getConversation"

IsFanOut(req) ==
  IsDisputeFanOut(req) \/ IsPaymentFanOut(req) \/ IsMessageFanOut(req)

\* the stored documents a fan-out request asks for: those that satisfy one of
\* its two predicates
Involved(req) ==
  IF IsDisputeFanOut(req)
    THEN {disputes[i] : i \in {j \in 1..Len(disputes) :
            \/ disputes[j].complainant_id = req.userId
            \/ disputes[j].respondent_id = req.userId}}
  ELSE IF IsPaymentFanOut(req)
    THEN {payments[i] : i \in {j \in 1..Len(payments) :
            \/ payments[j].payer_id = req.userId
            \/ payments[j].recipient_id = req.userId}}
  ELSE {messages[i] : i \in {j \in 1..Len(messages) :
            \/ messages[j].sender_id = req.userId /\ messages[j].recipient_id = req.arg
            \/ messages[j].sender_id = req.arg /\ messages[j].recipient_id = req.userId}}

\* the stored documents that satisfy both predicates of a fan-out request
InvolvedTwice(req) ==
  IF IsDisputeFanOut(req)
    THEN {d \in Involved(req) :
            d.complainant_id = req.userId /\ d.respondent_id = req.userId}
  ELSE IF IsPaymentFanOut(req)
    THEN {d \in Involved(req) :
            d.payer_id = req.userId /\ d.recipient_id = req.userId}
  ELSE {d \in Involved(req) : req.userId = req.arg}

TimeOf(d) == IF "sent_at" \in DOMAIN d THEN d.sent_at ELSE d.created_at

NoRepeats(s) == \A i \in 1..Len(s), j \in 1..Len(s) : i # j => s[i].id # s[j].id

Occurrences(s, id) == Cardinality({i \in 1..Len(s) : s[i].id = id})

Elems(s) == {s[i] : i \in 1..Len(s)}

\* the window [0, limit) is large enough for every document asked for
WholeSetAsked(req) == req.offset = 0 /\ Cardinality(Involved(req)) <= req.limit

\* ---- C1
\* C1: getUserDisputes(U, 'all') and getUserPayments(U, 'all') never return
\* the same $id twice, and return each document involving U exactly once when
\* the window holds them all, also when a document matches both predicates.
C1_EachInvolvedOnce ==
  ( /\ request.op \in {"DisputeService.getUserDisputes",
                       "PaymentService.getUserPayments"}
    /\ request.arg = "all"
    /\ response.success )
  => /\ NoRepeats(response.documents)
     /\ WholeSetAsked(request) =>
          \A d \in Involved(request) : Occurrences(response.documents, d.id) = 1

\* ---- C2
\* the documents the two source queries of getAll return for the request
SourceDocs(req, equalities) ==
  Elems(listDocuments(disputes, equalities, CreatedAt, req.limit, req.offset).documents)

ReturnedByComplainantQuery(req) ==
  SourceDocs(req, [complainant_id |-> req.userId])

ReturnedByRespondentQuery(req) ==
  SourceDocs(req, [respondent_id |-> req.userId])

IsGetAllFanOut ==
  /\ request.op = "DisputeService.getAll"
  /\ request.userId # NoUser
  /\ response.success

\* C2 as stated, for a first page already (offset 0): getAll with userId
\* returns no $id twice, and every dispute that both source queries return is
\* in the returned list exactly once.
C2_ReturnedByBothExactlyOnce ==
  (IsGetAllFanOut /\ request.offset = 0) =>
    /\ NoRepeats(response.documents)
    /\ \A d \in ReturnedByComplainantQuery(request) \cap
                ReturnedByRespondentQuery(request) :
         Occurrences(response.documents, d.id) = 1

\* C2 as amended: getAll with userId returns no $id twice: every dispute that
\* both source queries return is in the returned list at most once, and
\* exactly once when the call asks for the first page and the disputes the two
\* queries return number at most limit.
C2_NoIdTwice ==
  IsGetAllFanOut =>
    LET both == ReturnedByComplainantQuery(request) \cap
                ReturnedByRespondentQuery(request)
        either == ReturnedByComplainantQuery(request) \cup
                  ReturnedByRespondentQuery(request)
    IN  /\ NoRepeats(response.documents)
        /\ \A d \in both : Occurrences(response.documents, d.id) <= 1
        /\ (request.offset = 0 /\ Cardinality(either) <= request.limit) =>
             \A d \in both : Occurrences(response.documents, d.id) = 1

\* a dispute returned by both source queries is in the returned list, once
C2_Witness ==
  /\ IsGetAllFanOut
  /\ \E d \in ReturnedByComplainantQuery(request) \cap
              ReturnedByRespondentQuery(request) :
       Occurrences(response.documents, d.id) = 1

\* ---- C3
\* the caller has paged from offset 0 on, past the last matching document:
\* every later page is empty
PagingDone ==
  /\ pages.started
  /\ response.success
  /\ IsFanOut(request)
  /\ request.offset + request.limit >= Cardinality(Involved(request))

SortedByTimeDesc(s) ==
  \A i \in 1..(Len(s) - 1) : TimeOf(s[i]) >= TimeOf(s[i + 1])

\* C3: the pages for offsets 0, L, 2L, ... of a fan-out, concatenated, are the
\* full deduplicated sorted set of matching documents: no gaps, no repeats.
\* Stated for stores where no document matches both predicates, so that only
\* the paging is at stake and not the deduplication of one page.
C3_PagesCoverAll ==
  (PagingDone /\ InvolvedTwice(request) = {}) =>
    /\ NoRepeats(pages.docs)
    /\ Elems(pages.docs) = Involved(request)
    /\ SortedByTimeDesc(pages.docs)

\* ---- C10
\* C10: in every page of a fan-out merge, timestamps never increase from one
\* document to the next, and documents with equal timestamps are in ascending
\* $id order.
C10_PageOrdered ==
  (IsFanOut(request) /\ response.success) =>
    \A i \in 1..(Len(response.documents) - 1) :
      LET a == response.documents[i]
          b == response.documents[i + 1]
      IN  \/ TimeOf(a) > TimeOf(b)
          \/ TimeOf(a) = TimeOf(b) /\ a.id <= b.id

\* ---- C4, C5
IsReviewWrite ==
  request.op \in {"ReviewService.create", "ReviewService.update",
                  "ReviewService.delete"}

PrimaryWrites == {"createDocument", "updateDocument", "deleteDocument"}

\* the statistics read and the profile write of the rating side effect
SideEffectCalls == {"listDocuments", "updateDocument(PROFILES)"}

IssuedWith(names, outcomes) ==
  {i \in 1..Len(calls) : calls[i].call \in names /\ calls[i].outcome \in outcomes}

Failed == StoreOutcomes \ {"ok"}

\* the envelope of the primary write alone, read off the store it left
PrimaryResult ==
  IF request.op = "ReviewService.delete" THEN Single(NoDoc)
  ELSE Single(getDocument(reviews, request.id))

C5_SideEffectOnlyAfterPrimary ==
  IsReviewWrite =>
    /\ \A i \in IssuedWith(SideEffectCalls, StoreOutcomes) :
         \E j \in IssuedWith(PrimaryWrites, {"ok"}) : j < i
    /\ IssuedWith(PrimaryWrites, Failed) # {} =>
         /\ ~response.success
         /\ IssuedWith(SideEffectCalls, StoreOutcomes) = {}

\* the primary write of a review failed and the envelope is a failure
C5_Witness ==
  /\ IsReviewWrite
  /\ IssuedWith(PrimaryWrites, Failed) # {}
  /\ ~response.success

\* ---- C6
\* C6: an application's status only moves from pending to accepted, rejected
\* or withdrawn; once it is one of these, no call changes it again.
C6_ApplicationTransitions ==
  [][\A i \in 1..Len(applications) :
       applications'[i].status # applications[i].status =>
         /\ applications[i].status = "pending"
         /\ applications'[i].status \in {"accepted", "rejected", "withdrawn"}]_vars

\* ---- C7
\* C7: a payment's status only follows pending -> completed, failed or
\* refunded, and completed -> refunded, over updateStatus, releaseEscrow and
\* refundEscrow.
C7_PaymentTransitions ==
  [][\A i \in 1..Len(payments) :
       payments'[i].status # payments[i].status =>
         \/ /\ payments[i].status = "pending"
            /\ payments'[i].status \in {"completed", "failed", "refunded"}
         \/ /\ payments[i].status = "completed"
            /\ payments'[i].status = "refunded"]_vars

\* ---- C8
\* C8: a dispute's status only follows open -> under_review, open ->
\* cancelled, and under_review -> resolved (either way) or cancelled, over
\* updateStatus and assignToAdmin.
C8_DisputeTransitions ==
  [][\A i \in 1..Len(disputes) :
       disputes'[i].status # disputes[i].status =>
         \/ /\ disputes[i].status = "open"
            /\ disputes'[i].status \in {"under_review", "cancelled"}
         \/ /\ disputes[i].status = "under_review"
            /\ disputes'[i].status \in ResolvedStatuses \cup {"cancelled"}]_vars

\* ---- C9
\* the stored disputes that are resolved and carry resolved_at
ResolvedWithTime == {i \in 1..Len(disputes) :
                       /\ disputes[i].status \in ResolvedStatuses
                       /\ disputes[i].resolved_at # NoTime}

\* the hours from created_at to resolved_at, summed over the disputes in I
RECURSIVE HoursToResolve(_)
HoursToResolve(I) ==
  IF I = {} THEN 0
  ELSE LET i == CHOOSE j \in I : TRUE
       IN  disputes[i].resolved_at - disputes[i].created_at
             + HoursToResolve(I \ {i})

\* C9: getStats reports as averageResolutionTime the mean of resolved_at -
\* created_at over exactly the resolved disputes that carry resolved_at (to
\* hundredths of an hour), which is not zero when one of them was resolved
\* later than it was created.
C9_AverageOverResolved ==
  (request.op = "DisputeService.getStats" /\ response.success) =>
    /\ response.data.averageResolutionTime =
         IF ResolvedWithTime = {} THEN 0
         ELSE RoundedAverage100(HoursToResolve(ResolvedWithTime),
                                Cardinality(ResolvedWithTime))
    /\ (\E i \in ResolvedWithTime : disputes[i].resolved_at > disputes[i].created_at)
         => response.data.averageResolutionTime > 0

\* ---- C11
\* the number of documents of coll that carry the given field values
CountOf(coll, equalities) ==
  Cardinality({i \in 1..Len(coll) : Matches(coll[i], equalities)})

\* the totals the store reports for the two source queries of a fan-out
\* request, added up
SourceTotals(req) ==
  IF IsDisputeFanOut(req)
    THEN CountOf(disputes, [complainant_id |-> req.userId])
         + CountOf(disputes, [respondent_id |-> req.userId])
  ELSE IF IsPaymentFanOut(req)
    THEN CountOf(payments, [payer_id |-> req.userId])
         + CountOf(payments, [recipient_id |-> req.userId])
  ELSE CountOf(messages, [sender_id |-> req.userId, recipient_id |-> req.arg])
       + CountOf(messages, [sender_id |-> req.arg, recipient_id |-> req.userId])

\* C11: every fan-out merge reports as total the sum of the totals the store
\* reports for its two source queries, not the deduplicated count and not the
\* size of the fetched page.
C11_TotalIsSumOfSources ==
  (IsFanOut(request) /\ response.success) =>
    response.total = SourceTotals(request)

\* ---- C12
\* the envelope the operation of a fan-out request returns for offset 0, with
\* the store as it is and both source queries answering
FirstPage(req) ==
  IF req.op = "DisputeService.getAll"
    THEN getAll(disputes, req.userId, req.arg, req.limit, 0, "ok", "ok", "ok")
  ELSE IF req.op = "DisputeService.getUserDisputes"
    THEN getUserDisputes(disputes, req.userId, req.arg, req.limit, 0, "ok", "ok", "ok")
  ELSE IF req.op = "PaymentService.getUserPayments"
    THEN getUserPayments(payments, req.userId, req.arg, req.limit, 0, "ok", "ok", "ok")
  ELSE getConversation(messages, req.userId, req.arg, req.limit, 0, "ok", "ok", "ok")

\* C12: a fan-out merge called with an offset at or beyond the number of
\* distinct matching documents returns no documents, and the total it reports
\* for offset 0 with the same store content.
C12_PastTheEnd ==
  ( /\ IsFanOut(request)
    /\ response.success
    /\ request.offset >= Cardinality(Involved(request)) )
  => /\ response.documents = <<>>
     /\ response.total = FirstPage(request).total

\* ---- C13
\* C13: when one of the two source queries of a fan-out merge fails, the
\* operation returns a failure envelope with an error message and without any
\* document of the query that answered.
C13_NoPartialResult ==
  (IsFanOut(request) /\ IssuedWith({"listDocuments"}, Failed) # {}) =>
    /\ ~response.success
    /\ response.error # ""
    /\ response.documents = <<>>
    /\ response.total = 0

\* one source query failed while the other answered, with documents to return
C13_Witness ==
  /\ IsFanOut(request)
  /\ IssuedWith({"listDocuments"}, Failed) # {}
  /\ IssuedWith({"listDocuments"}, {"ok"}) # {}
  /\ Involved(request) # {}
  /\ ~response.success

\* ---- C14
\* the store calls whose failure an operation has to report: all but those of
\* the rating side effect
ReportedCalls == {"getDocument", "createDocument", "updateDocument",
                  "deleteDocument"}

\* the fallback message of the catch a failed call ends up in
FallbackOf(op, call) ==
  IF call = "getDocument" THEN "Failed to fetch review"
  ELSE IF op = "ReviewService.create" THEN "Failed to create review"
  ELSE IF op = "ReviewService.update" THEN "Failed to update review"
  ELSE IF op = "ReviewService.delete" THEN "Failed to delete review"
  ELSE IF op = "ApplicationService.create" THEN "Failed to create application"
  ELSE "Failed to update application status"

ReviewsFor(revs, u) == {i \in 1..Len(revs) : revs[i].reviewee_id = u}

\* the ratings of the reviews of revs at the positions in I, added up
RECURSIVE RatingSum(_, _)
RatingSum(revs, I) ==
  IF I = {} THEN 0
  ELSE LET i == CHOOSE j \in I : TRUE
       IN  revs[i].rating + RatingSum(revs, I \ {i})

\* the mean of the ratings at the positions in I in tenths, rounded to the
\* nearest tenth with halves up; 0 for no review
MeanInTenths(revs, I) ==
  IF I = {} THEN 0
  ELSE LET n == Cardinality(I)
           total == RatingSum(revs, I)
       IN  CHOOSE q \in 0..(10 * total) :
             /\ 2 * n * q - n <= 20 * total
             /\ 20 * total < 2 * n * q + n

\* every store call of the operation answered, the profile write among them
RatingWritten ==
  /\ IsReviewWrite
  /\ IssuedWith(ReportedCalls \cup SideEffectCalls, Failed) = {}
  /\ IssuedWith({"updateDocument(PROFILES)"}, {"ok"}) # {}

StatisticsOps ==
  {"ReviewService.getUserRatingStats", "ReviewService.getPlatformStats",
   "PaymentService.getStats", "DisputeService.getStats",
   "DisputeService.getAdminWorkload", "AdminService.getDashboardStats"}

\* every store call the last operation issued was answered
StoreAnswered == \A i \in 1..Len(calls) : calls[i].outcome = "ok"

\* positions of the documents of coll that carry value in field
Carrying(coll, field, value) == {i \in 1..Len(coll) : coll[i][field] = value}

\* positions of the reviews a rating statistics request scans
ScannedReviews(req) ==
  IF req.op = "ReviewService.getUserRatingStats"
    THEN Carrying(reviews, "reviewee_id", req.userId)
    ELSE 1..Len(reviews)

\* positions of the disputes a dispute statistics request scans
ScannedDisputes(req) ==
  IF req.op = "DisputeService.getAdminWorkload"
    THEN Carrying(disputes, "assigned_admin_id", req.userId)
    ELSE 1..Len(disputes)

\* the scanned reviews carry the ratings 3, 4 and 5, once each
RatingsThreeFourFive(req) ==
  /\ Cardinality(ScannedReviews(req)) = 3
  /\ {reviews[i].rating : i \in ScannedReviews(req)} = {3, 4, 5}

\* C16: a statistics operation whose store calls are answered returns success;
\* its average is 0 when the documents it scans are none (averageRating over
\* the reviews, averageTransactionValue over the payments,
\* averageResolutionTime over the disputes, averageJobValue over the completed
\* payments, jobCompletionRate over the jobs); over reviews rated 3, 4 and 5
\* averageRating is 4.0 (40 tenths).
C16_EmptyAverageIsZero ==
  (request # NoRequest /\ request.op \in StatisticsOps /\ StoreAnswered) =>
    /\ response.success
    /\ request.op \in {"ReviewService.getUserRatingStats",
                       "ReviewService.getPlatformStats"} =>
         /\ ScannedReviews(request) = {} => response.data.averageRating = 0
         /\ RatingsThreeFourFive(request) => response.data.averageRating = 40
    /\ request.op = "PaymentService.getStats" =>
         (payments = <<>> =>
            response.data.averageTransactionValue = [num |-> 0, den |-> 1])
    /\ request.op \in {"DisputeService.getStats",
                       "DisputeService.getAdminWorkload"} =>
         (ScannedDisputes(request) = {} => response.data.averageResolutionTime = 0)
    /\ request.op = "AdminService.getDashboardStats" =>
         /\ Carrying(payments, "status", "completed") = {} =>
              response.data.averageJobValue = 0
         /\ jobs = <<>> => response.data.jobCompletionRate = 0

\* payment statistics asked for while no payment is stored
C16_Witness ==
  /\ request # NoRequest
  /\ request.op = "PaymentService.getStats"
  /\ payments = <<>>
  /\ response.success
  /\ response.data.totalTransactions = 0
  /\ response.data.averageTransactionValue = [num |-> 0, den |-> 1]

\* the rating statistics of a user whose three reviews are rated 3, 4 and 5
C16_WitnessRatings ==
  /\ request # NoRequest
  /\ request.op = "ReviewService.getUserRatingStats"
  /\ response.success
  /\ RatingsThreeFourFive(request)
  /\ response.data.averageRating = 40

\* ---------------------------------------------------------------- C17
\* the sum of the amounts of the payments at the positions in I
RECURSIVE AmountSum(_, _)
AmountSum(coll, I) ==
  IF I = {} THEN 0
  ELSE LET i == CHOOSE j \in I : TRUE
       IN  coll[i].amount + AmountSum(coll, I \ {i})

\* total / n rounded to the nearest hundredth, halves away from zero, in
\* hundredths
NearestHundredth(total, n) ==
  CHOOSE q \in 0..(100 * total) :
    /\ 2 * n * q - n <= 200 * total
    /\ 200 * total < 2 * n * q + n

\* C17: every domain average a statistics operation returns is the mean of
\* the scanned values rounded once, halves away from zero: averageRating of
\* getUserRatingStats and getPlatformStats to one decimal place,
\* averageTransactionValue of PaymentService.getStats and averageJobValue of
\* getDashboardStats to two.
C17_AveragesRoundedOnce ==
  (request # NoRequest /\ request.op \in StatisticsOps /\ response.success) =>
    /\ request.op \in {"ReviewService.getUserRatingStats",
                       "ReviewService.getPlatformStats"} =>
         response.data.averageRating
           = MeanInTenths(reviews, ScannedReviews(request))
    /\ (request.op = "PaymentService.getStats" /\ payments # <<>>) =>
         response.data.averageTransactionValue
           = Quotient(NearestHundredth(AmountSum(payments, 1..Len(payments)),
                                       Len(payments)), 100)
    /\ request.op = "AdminService.getDashboardStats" =>
         LET completed == Carrying(payments, "status", "completed")
         IN  completed # {} =>
               response.data.averageJobValue
                 = NearestHundredth(AmountSum(payments, completed),
                                    Cardinality(completed))

\* ---------------------------------------------------------------- C18
\* the sum of the counts of a distribution over the values in V
RECURSIVE CountSum(_, _)
CountSum(dist, V) ==
  IF V = {} THEN 0
  ELSE LET v == CHOOSE w \in V : TRUE
       IN  dist[v] + CountSum(dist, V \ {v})

\* dist maps each value that field takes in the documents of coll at the
\* positions in I to the number of those documents carrying it, has no other
\* key, and its counts add up to the number of those documents
IsDistribution(dist, coll, field, I) ==
  /\ DOMAIN dist = {coll[i][field] : i \in I}
  /\ \A v \in DOMAIN dist :
       dist[v] = Cardinality({i \in I : coll[i][field] = v})
  /\ CountSum(dist, DOMAIN dist) = Cardinality(I)

\* C18: each distribution a statistics operation returns (ratingDistribution
\* of getUserRatingStats and getPlatformStats, reviewsByType of
\* getPlatformStats, disputesByType and disputesByPriority of
\* DisputeService.getStats) maps every value occurring in the scanned
\* documents to the number of documents carrying it, has no key for a value
\* that does not occur, and its counts sum to the number of scanned documents.
C18_DistributionsExact ==
  (request # NoRequest /\ request.op \in StatisticsOps /\ response.success) =>
    /\ request.op \in {"ReviewService.getUserRatingStats",
                       "ReviewService.getPlatformStats"} =>
         IsDistribution(response.data.ratingDistribution, reviews, "rating",
                        ScannedReviews(request))
    /\ request.op = "ReviewService.getPlatformStats" =>
         IsDistribution(response.data.reviewsByType, reviews, "review_type",
                        ScannedReviews(request))
    /\ request.op = "DisputeService.getStats" =>
         /\ IsDistribution(response.data.disputesByType, disputes,
                           "dispute_type", ScannedDisputes(request))
         /\ IsDistribution(response.data.disputesByPriority, disputes,
                           "priority", ScannedDisputes(request))

\* platform statistics over three reviews, two rated 3 and one rated 4: the
\* distribution counts 2 and 1 and has no key 5
C18_Witness ==
  /\ request # NoRequest
  /\ request.op = "ReviewService.getPlatformStats"
  /\ response.success
  /\ Len(reviews) = 3
  /\ DOMAIN response.data.ratingDistribution = {3, 4}
  /\ response.data.ratingDistribution[3] = 2
  /\ response.data.ratingDistribution[4] = 1

\* ---------------------------------------------------------------- C19
\* the step is a call of ReviewService.update
ReviewUpdateStep == Idle /\ request'.op = "ReviewService.update"

\* the update wrote a rating other than the one the review had
RatingChanged ==
  /\ request'.arg = "rating"
  /\ request'.id \in IdsOf(reviews) \cap IdsOf(reviews')
  /\ getDocument(reviews', request'.id).rating
       # getDocument(reviews, request'.id).rating

\* C19: a ReviewService.update whose updateData carries no rating, or the
\* rating the stored review already has, issues neither the statistics read
\* nor the profile write and leaves every profile as it was; put the other
\* way round, an update that issues either or changes a profile has written a
\* rating different from the stored one.
C19_NoRecomputeWithoutRatingChange ==
  [][(ReviewUpdateStep /\ ~RatingChanged) =>
       /\ IssuedWith(SideEffectCalls, StoreOutcomes)' = {}
       /\ profiles' = profiles]_vars

\* an update that carried the rating the review already had: it was written,
\* nothing else was issued, and the reviewee's profile holds statistics
C19_Witness ==
  /\ request # NoRequest
  /\ request.op = "ReviewService.update"
  /\ request.arg = "rating"
  /\ response.success
  /\ calls = <<Call("getDocument", "ok"), Call("updateDocument", "ok")>>
  /\ profiles[response.data.reviewee_id].total_reviews > 0

\* ---------------------------------------------------------------- C20
\* the fan-out operation of the request has returned its envelope
FanOutSettled ==
  request # NoRequest /\ IsFanOut(request) /\ ~promises.awaiting

\* the order in which the two responses arrived
ArrivalOrder == [i \in 1..Len(promises.arrived) |-> promises.arrived[i].query]

C21_UnsubscribeAllTearsDownAll ==
  request.op = "RealtimeService.unsubscribeAll" =>
    /\ getActiveSubscriptionCount = 0
    /\ \A i \in 1..Len(realtime.client) :
         ~realtime.client[i].cancelled => realtime.client[i].invoked = 1

\* ---------------------------------------------------------------- C26
\* the subscriptions of the client whose callback has not been invoked
Live(client) == {i \in 1..Len(client) : client[i].invoked = 0}

\* the subscriptions of the client that the Map holds a callback of
Registered(rt) == {rt.subscriptions[k] : k \in DOMAIN rt.subscriptions}

\* C26: after every step getActiveSubscriptionCount() is the number of client
\* subscriptions made by subscribe calls and not yet cancelled, and the
\* handle of one subscribe call removes the registration of that call's
\* subscription only, never that of a later one.
C26_CountIsLiveSubscriptions ==
  [][/\ getActiveSubscriptionCount' = Cardinality(Live(realtime'.client))
     /\ request'.op = "unsubscribe" =>
          Registered(realtime) \ Registered(realtime') \subseteq {request'.id}]_vars

\* ---------------------------------------------------------------- C22
\* every task has made a ReviewService call and the call has returned success
AllReturned == \A t \in Tasks : tasks[t].pc = "returned"

\* C22: when ReviewService calls for one reviewee have run side by side and
\* all have returned with no store failure, the profile of the reviewee
\* holds the average_rating and the total_reviews of the reviews then stored
\* for that reviewee.
C22_NoStaleAggregate ==
  AllReturned =>
    \A t \in Tasks :
      profiles[tasks[t].reviewee]
        = [average_rating |->
             MeanInTenths(reviews, ReviewsFor(reviews, tasks[t].reviewee)),
           total_reviews |-> Cardinality(ReviewsFor(reviews, tasks[t].reviewee))]

\* ---------------------------------------------------------------- C23
\* the number of incrementJobsCompleted calls on a profile that have
\* returned success
RECURSIVE Incremented(_, _)
Incremented(profileId, n) ==
  IF n = 0 THEN 0 ELSE Succeeded(n)[profileId] + Incremented(profileId, n - 1)

\* C23: after n incrementJobsCompleted calls on one profile have each
\* returned success, the jobsCompleted of the profile is n higher than it was
\* (it starts at 0), in whatever order their reads and writes took place.
C23_EveryIncrementCounts ==
  \A profileId \in Users :
    jobsCompleted[profileId] = Incremented(profileId, MaxTracked)

\* ---------------------------------------------------------------- C29
\* the elements of a are found in b in the same order
RECURSIVE IsSubsequence(_, _)
IsSubsequence(a, b) ==
  IF a = <<>> THEN TRUE
  ELSE IF b = <<>> THEN FALSE
  ELSE IF Head(a) = Head(b) THEN IsSubsequence(Tail(a), Tail(b))
  ELSE IsSubsequence(a, Tail(b))

\* an addEvidence call returns success in this step
EvidenceReturns(t) == tasks[t].pc = "got" /\ tasks'[t].pc = "returned"

\* C29: addEvidence only ever appends. Whatever else is in progress, no step
\* removes or reorders a URL a dispute already holds, and when a call returns
\* success the dispute holds the URLs passed to it; so after any set of calls
\* the dispute holds the earlier URLs, in their order, and every URL passed.
C29_EvidenceOnlyAppended ==
  [][/\ \A i \in 1..Len(disputes) :
          IsSubsequence(disputes[i].evidence_urls, disputes'[i].evidence_urls)
     /\ \A t \in Tasks :
          EvidenceReturns(t) =>
            IsSubsequence(tasks[t].evidenceUrls,
                          getDocument(disputes', tasks[t].disputeId).evidence_urls)]_vars

\* ---------------------------------------------------------------- C24
\* the escrow_status that goes with a payment status
EscrowFor(status) ==
  IF status = "completed" THEN "released"
  ELSE IF status = "refunded" THEN "refunded"
  ELSE "held"

\* C24: in every state every payment's escrow_status is released exactly
\* when its status is completed, refunded exactly when its status is
\* refunded, and held otherwise.
C24_EscrowFollowsStatus ==
  \A i \in 1..Len(payments) : payments[i].escrow_status = EscrowFor(payments[i].status)

\* ---------------------------------------------------------------- C25
\* the resolved disputes assigned to an admin
ResolvedAssigned(adminId) ==
  {i \in 1..Len(disputes) : /\ disputes[i].assigned_admin_id = adminId
                            /\ disputes[i].status \in ResolvedStatuses}

\* C25: every dispute with a resolved status carries a resolved_at and every
\* under_review dispute a review_started_at, whatever optional arguments
\* updateStatus was given; and getAdminWorkload answers, as its resolved
\* figure, the number of resolved disputes assigned to the admin.
C25_StatusTimestampsPresent ==
  /\ \A i \in 1..Len(disputes) :
       /\ disputes[i].status \in ResolvedStatuses => disputes[i].resolved_at # NoTime
       /\ disputes[i].status = "under_review" => disputes[i].review_started_at # NoTime
  /\ (request.op = "DisputeService.getAdminWorkload" /\ response.success)
       => response.data.resolved = Cardinality(ResolvedAssigned(request.userId))

\* ---------------------------------------------------------------- C27
\* C27: in the auth store, whenever isAuthenticated is false both user and
\* profile are null, in every state the calls on the store can reach in any
\* interleaving.
C27_SignedOutHoldsNothing ==
  ~auth.isAuthenticated => auth.user = NoUser /\ auth.profile = NoProfile

\* ---------------------------------------------------------------- C30
\* the step is a NotificationService.markAllAsRead call
MarkAllAsReadStep == Idle /\ request'.op = "NotificationService.markAllAsRead"

\* C30: markAllAsRead is all-or-nothing: when it returns success every
\* notification of the user that was unread at the listing is read, and
\* when it returns failure no is_read has changed.
C30_MarkAllAllOrNothing ==
  [][MarkAllAsReadStep =>
       IF response'.success
         THEN \A i \in 1..Len(notifications) :
                notifications[i].user_id = request'.userId => notifications'[i].is_read
         ELSE notifications' = notifications]_vars

\* ---------------------------------------------------------------- C28
\* the stored messages exchanged between two users, by position
Exchanged(u, partner) ==
  {i \in 1..Len(messages) :
     \/ messages[i].sender_id = u /\ messages[i].recipient_id = partner
     \/ messages[i].sender_id = partner /\ messages[i].recipient_id = u}

\* the users a user has exchanged a message with
Partners(u) == {p \in Users : Exchanged(u, p) # {}}

\* the stored messages a partner sent to the user that are not read
UnreadFrom(u, partner) ==
  {i \in Exchanged(u, partner) : /\ messages[i].sender_id = partner
                                 /\ messages[i].recipient_id = u
                                 /\ ~messages[i].is_read}

\* C28: getUserConversations(U) yields exactly one entry per partner of U,
\* with as unreadCount the number of stored unread messages the partner sent
\* to U and as lastMessage a message of greatest sent_at among those
\* exchanged with the partner, also when U has written to themselves.
C28_OneEntryPerPartner ==
  (request.op = "MessageService.getUserConversations" /\ response.success) =>
    LET u == request.userId
        docs == response.documents
    IN  /\ Len(docs) = Cardinality(Partners(u))
        /\ {docs[i].userId : i \in 1..Len(docs)} = Partners(u)
        /\ \A i \in 1..Len(docs) :
             /\ docs[i].unreadCount = Cardinality(UnreadFrom(u, docs[i].userId))
             /\ \A j \in Exchanged(u, docs[i].userId) :
                  messages[j].sent_at <= docs[i].lastMessage.sent_at
====
